---------------------------- MODULE Spec2Model ----------------------------
(***************************************************************************)
(* Grid layout engine of claude-canvas: grid primitives, cell calculator   *)
(* and grid manager, with the grid entry points of the canvas API.         *)
(*                                                                         *)
(* Strings that the code inspects character by character (cell            *)
(* specifications, spreadsheet notation) are sequences of UTF-16 code      *)
(* units.  Window identifiers are opaque to the code (compared with ===    *)
(* and tested for truthiness only) and are TLA+ strings.                   *)
(***************************************************************************)
EXTENDS Integers, Sequences, FiniteSets, TLC

VARIABLES
  gridState,   \* the GridState value the caller currently holds
  call         \* the last call made: its name, its inputs and what it returned

vars == <<gridState, call>>

---------------------------------------------------------------------------
(* Bounds of the model *)

\* Input spans may start or end up to this many cells outside the grid.
MaxOverhang == 1

---------------------------------------------------------------------------
(* JavaScript values *)

\* The value JavaScript calls null (a lookup or a search that found nothing).
Null == [null |-> TRUE]

Min(a, b) == IF a <= b THEN a ELSE b

\* Math.max
Max(a, b) == IF a >= b THEN a ELSE b

---------------------------------------------------------------------------
(* Grid primitives *)

singleCell(row, column) ==
  [startRow |-> row, startColumn |-> column, rowSpan |-> 1, columnSpan |-> 1]

cellSpan(startRow, startColumn, rowSpan, columnSpan) ==
  [startRow |-> startRow, startColumn |-> startColumn,
   rowSpan |-> Max(1, rowSpan), columnSpan |-> Max(1, columnSpan)]

\* cellSpansOverlap comparing the rows only.
cellSpansOverlapInRows(a, b) ==
  LET aEndRow == a.startRow + a.rowSpan - 1
      bEndRow == b.startRow + b.rowSpan - 1
  IN ~( \/ aEndRow < b.startRow
        \/ a.startRow > bEndRow )

\* cellSpansOverlap with <= where the code compares with <: spans that only
\* touch in their last row or column count as apart.
cellSpansOverlapInclusive(a, b) ==
  LET aEndRow == a.startRow + a.rowSpan - 1
      aEndCol == a.startColumn + a.columnSpan - 1
      bEndRow == b.startRow + b.rowSpan - 1
      bEndCol == b.startColumn + b.columnSpan - 1
  IN ~( \/ aEndRow <= b.startRow
        \/ a.startRow > bEndRow
        \/ aEndCol <= b.startColumn
        \/ a.startColumn > bEndCol )

cellSpansOverlap(a, b) ==
  LET aEndRow == a.startRow + a.rowSpan - 1
      aEndCol == a.startColumn + a.columnSpan - 1
      bEndRow == b.startRow + b.rowSpan - 1
      bEndCol == b.startColumn + b.columnSpan - 1
  IN ~( \/ aEndRow < b.startRow
        \/ a.startRow > bEndRow
        \/ aEndCol < b.startColumn
        \/ a.startColumn > bEndCol )

isWithinGrid(span, config) ==
  /\ span.startRow >= 0
  /\ span.startColumn >= 0
  /\ span.startRow + span.rowSpan <= config.rows
  /\ span.startColumn + span.columnSpan <= config.columns

\* The cells of a span in the order the two nested loops push them.
getCellsInSpan(span) ==
  LET nCols == Max(0, span.columnSpan)
      n     == Max(0, span.rowSpan) * nCols
  IN [i \in 1..n |->
        [row    |-> span.startRow + ((i - 1) \div nCols),
         column |-> span.startColumn + ((i - 1) % nCols)]]

---------------------------------------------------------------------------
(* Strings: sequences of UTF-16 code units *)

\* The code units of the characters the model's inputs are written with.
CharCode ==
  ("0" :> 48) @@ ("1" :> 49) @@ ("2" :> 50) @@ ("3" :> 51) @@ ("4" :> 52) @@
  ("5" :> 53) @@ ("6" :> 54) @@ ("7" :> 55) @@ ("8" :> 56) @@ ("9" :> 57) @@
  ("A" :> 65) @@ ("B" :> 66) @@ ("C" :> 67) @@ ("Z" :> 90) @@ ("X" :> 88) @@
  ("a" :> 97) @@ ("b" :> 98) @@ ("c" :> 99) @@ ("x" :> 120) @@
  ("," :> 44) @@ (":" :> 58) @@ (" " :> 32) @@ ("-" :> 45) @@ ("ß" :> 223)

\* The string whose characters are the one-character strings of the tuple t.
Str(t) == [i \in 1..Len(t) |-> CharCode[t[i]]]

\* \d of a JavaScript regular expression (no u flag): 0-9.
Digits == 48..57

\* [A-Z]
UpperLetters == 65..90

\* \s of a regular expression, and what String.prototype.trim strips (the code
\* units below 256 of the WhiteSpace and LineTerminator productions).
WhiteSpace == {9, 10, 11, 12, 13, 32, 160}

\* String.prototype.toUpperCase on one code unit: a-z map to A-Z, and the
\* sharp s (U+00DF), which has no single upper-case letter, maps to "SS".
UpperOfChar(c) ==
  IF c \in 97..122 THEN <<c - 32>>
  ELSE IF c = 223 THEN <<83, 83>>
  ELSE <<c>>

RECURSIVE toUpperCase(_)
toUpperCase(s) ==
  IF s = << >> THEN << >>
  ELSE UpperOfChar(Head(s)) \o toUpperCase(Tail(s))

RECURSIVE TrimStart(_)
TrimStart(s) ==
  IF s # << >> /\ Head(s) \in WhiteSpace THEN TrimStart(Tail(s)) ELSE s

RECURSIVE TrimEnd(_)
TrimEnd(s) ==
  IF s # << >> /\ s[Len(s)] \in WhiteSpace
  THEN TrimEnd(SubSeq(s, 1, Len(s) - 1)) ELSE s

\* String.prototype.trim
trim(s) == TrimEnd(TrimStart(s))

\* parseInt(s, 10) of a string of decimal digits.
RECURSIVE parseInt(_)
parseInt(s) ==
  IF s = << >> THEN 0
  ELSE 10 * parseInt(SubSeq(s, 1, Len(s) - 1)) + (s[Len(s)] - 48)

\* Number.prototype.toString of an integer.
RECURSIVE toString(_)
toString(n) ==
  IF n < 0 THEN <<45>> \o toString(-n)
  ELSE IF n < 10 THEN <<48 + n>>
  ELSE toString(n \div 10) \o <<48 + (n % 10)>>

\* The first position at or after i whose character is not in the class
\* (Len(s) + 1 when there is none): where a greedy X* or X+ stops.
RECURSIVE SkipWhile(_, _, _)
SkipWhile(s, i, class) ==
  IF i <= Len(s) /\ s[i] \in class THEN SkipWhile(s, i + 1, class) ELSE i

SkipDigits(s, i) == SkipWhile(s, i, Digits)

SkipLetters(s, i) == SkipWhile(s, i, UpperLetters)

SkipSpace(s, i) == SkipWhile(s, i, WhiteSpace)

CharAt(s, i, c) == i <= Len(s) /\ s[i] = c

---------------------------------------------------------------------------
(* Cell calculator: cell sizes *)

\* Division rounding toward zero, as (a / b) | 0 or Math.trunc(a / b) would.
TruncDiv(a, b) == IF a >= 0 THEN a \div b ELSE -((-a) \div b)

\* Math.floor(a / b) for integers a and b > 0: rounds toward minus infinity.
FloorDiv(a, b) == a \div b

calculateSingleCellSize(config, monitor) ==
  LET availableWidth  == monitor.workAreaWidth - config.marginLeft - config.marginRight
      availableHeight == monitor.workAreaHeight - config.marginTop - config.marginBottom
      totalHGap       == (config.columns - 1) * config.cellGapHorizontal
      totalVGap       == (config.rows - 1) * config.cellGapVertical
  IN [width  |-> FloorDiv(availableWidth - totalHGap, config.columns),
      height |-> FloorDiv(availableHeight - totalVGap, config.rows)]

calculateRemainingSpace(config, monitor) ==
  LET availableWidth  == monitor.workAreaWidth - config.marginLeft - config.marginRight
      availableHeight == monitor.workAreaHeight - config.marginTop - config.marginBottom
      totalHGap       == (config.columns - 1) * config.cellGapHorizontal
      totalVGap       == (config.rows - 1) * config.cellGapVertical
      cellWidth       == FloorDiv(availableWidth - totalHGap, config.columns)
      cellHeight      == FloorDiv(availableHeight - totalVGap, config.rows)
      usedWidth       == cellWidth * config.columns + totalHGap
      usedHeight      == cellHeight * config.rows + totalVGap
  IN [horizontal |-> availableWidth - usedWidth,
      vertical   |-> availableHeight - usedHeight]

\* calculateCellRect with a gap counted after every cell of the span, the
\* last one included.
calculateCellRectGapAfterEachCell(span, config, monitor) ==
  LET cell == calculateSingleCellSize(config, monitor)
  IN [x      |-> monitor.workAreaX + config.marginLeft
                   + span.startColumn * (cell.width + config.cellGapHorizontal),
      y      |-> monitor.workAreaY + config.marginTop
                   + span.startRow * (cell.height + config.cellGapVertical),
      width  |-> span.columnSpan * (cell.width + config.cellGapHorizontal),
      height |-> span.rowSpan * (cell.height + config.cellGapVertical)]

\* calculateCellRect with the size of the cells alone, the gaps between them
\* left out.
calculateCellRectWithoutGaps(span, config, monitor) ==
  LET cell == calculateSingleCellSize(config, monitor)
  IN [x      |-> monitor.workAreaX + config.marginLeft
                   + span.startColumn * (cell.width + config.cellGapHorizontal),
      y      |-> monitor.workAreaY + config.marginTop
                   + span.startRow * (cell.height + config.cellGapVertical),
      width  |-> span.columnSpan * cell.width,
      height |-> span.rowSpan * cell.height]

calculateCellRect(span, config, monitor) ==
  LET availableWidth  == monitor.workAreaWidth - config.marginLeft - config.marginRight
      availableHeight == monitor.workAreaHeight - config.marginTop - config.marginBottom
      totalHGap       == (config.columns - 1) * config.cellGapHorizontal
      totalVGap       == (config.rows - 1) * config.cellGapVertical
      cellWidth       == FloorDiv(availableWidth - totalHGap, config.columns)
      cellHeight      == FloorDiv(availableHeight - totalVGap, config.rows)
  IN [x      |-> monitor.workAreaX + config.marginLeft
                   + span.startColumn * (cellWidth + config.cellGapHorizontal),
      y      |-> monitor.workAreaY + config.marginTop
                   + span.startRow * (cellHeight + config.cellGapVertical),
      width  |-> span.columnSpan * cellWidth
                   + (span.columnSpan - 1) * config.cellGapHorizontal,
      height |-> span.rowSpan * cellHeight
                   + (span.rowSpan - 1) * config.cellGapVertical]

\* The cells array of calculateAllCells: the unit rectangles in row-major
\* order, pushed by the nested loops.
calculateAllCells(config, monitor) ==
  LET size == calculateSingleCellSize(config, monitor)
  IN [cellWidth  |-> size.width,
      cellHeight |-> size.height,
      cells      |-> [i \in 1..(config.rows * config.columns) |->
                        LET row == (i - 1) \div config.columns
                            col == (i - 1) % config.columns
                        IN [row |-> row, column |-> col,
                            rect |-> calculateCellRect(
                                       [startRow |-> row, startColumn |-> col,
                                        rowSpan |-> 1, columnSpan |-> 1],
                                       config, monitor)]]]

\* The first cell at or after position i of cells whose rectangle passes the
\* test Holds: the for loop of getCellAtPosition.
RECURSIVE FirstCell(_, _, _)
FirstCell(cells, i, holds) ==
  IF i > Len(cells) THEN Null
  ELSE IF holds[i] THEN [row |-> cells[i].row, column |-> cells[i].column]
  ELSE FirstCell(cells, i + 1, holds)

\* getCellAtPosition with the far edges of a rectangle counted as inside it.
getCellAtPositionInclusive(x, y, config, monitor) ==
  LET cells == calculateAllCells(config, monitor).cells
  IN FirstCell(cells, 1,
       [i \in DOMAIN cells |->
          /\ x >= cells[i].rect.x
          /\ x <= cells[i].rect.x + cells[i].rect.width
          /\ y >= cells[i].rect.y
          /\ y <= cells[i].rect.y + cells[i].rect.height])

getCellAtPosition(x, y, config, monitor) ==
  LET cells == calculateAllCells(config, monitor).cells
  IN FirstCell(cells, 1,
       [i \in DOMAIN cells |->
          /\ x >= cells[i].rect.x
          /\ x < cells[i].rect.x + cells[i].rect.width
          /\ y >= cells[i].rect.y
          /\ y < cells[i].rect.y + cells[i].rect.height])

getCellCenter(row, column, config, monitor) ==
  LET rect == calculateCellRect([startRow |-> row, startColumn |-> column,
                                 rowSpan |-> 1, columnSpan |-> 1],
                                config, monitor)
  IN [x |-> rect.x + FloorDiv(rect.width, 2),
      y |-> rect.y + FloorDiv(rect.height, 2)]

---------------------------------------------------------------------------
(* Cell calculator: spreadsheet notation *)

\* The column letters: the do-while loop of cellToExcelNotation.
RECURSIVE ColumnLetters(_)
ColumnLetters(c) ==
  LET letter == 65 + (c % 26)
      next   == FloorDiv(c, 26) - 1
  IN IF next >= 0 THEN ColumnLetters(next) \o <<letter>> ELSE <<letter>>

\* The column written with A..Z as the digits 0..25 of ordinary base 26.
RECURSIVE Base26Letters(_)
Base26Letters(c) ==
  LET letter == 65 + (c % 26)
      next   == FloorDiv(c, 26)
  IN IF next > 0 THEN Base26Letters(next) \o <<letter>> ELSE <<letter>>

\* The column letters with each new letter put after the ones before it, the
\* least significant letter first.
RECURSIVE ColumnLettersAppended(_)
ColumnLettersAppended(c) ==
  LET letter == 65 + (c % 26)
      next   == FloorDiv(c, 26) - 1
  IN IF next >= 0 THEN <<letter>> \o ColumnLettersAppended(next) ELSE <<letter>>

cellToExcelNotationAppending(row, column) ==
  ColumnLettersAppended(column) \o toString(row + 1)

cellToExcelNotationBase26(row, column) ==
  Base26Letters(column) \o toString(row + 1)

cellToExcelNotation(row, column) ==
  ColumnLetters(column) \o toString(row + 1)

\* The column number the for loop of excelNotationToCell accumulates.
RECURSIVE ColumnValue(_)
ColumnValue(colStr) ==
  IF colStr = << >> THEN 0
  ELSE ColumnValue(SubSeq(colStr, 1, Len(colStr) - 1)) * 26
       + (colStr[Len(colStr)] - 64)

excelNotationToCell(notation) ==
  LET u    == toUpperCase(notation)
      pCol == SkipLetters(u, 1)          \* ^([A-Z]+)
      pRow == SkipDigits(u, pCol)        \* (\d+)$
  IN IF ~(pCol > 1 /\ pRow > pCol /\ pRow = Len(u) + 1) THEN Null
     ELSE LET column == ColumnValue(SubSeq(u, 1, pCol - 1)) - 1
              row    == parseInt(SubSeq(u, pCol, Len(u))) - 1
          IN IF row < 0 \/ column < 0 THEN Null
             ELSE [row |-> row, column |-> column]

\* formatCellSpan whose end cell is the cell after the span (start + span
\* without the - 1).
formatCellSpanEndExclusive(span) ==
  LET startCell == cellToExcelNotation(span.startRow, span.startColumn)
      endRow    == span.startRow + span.rowSpan
      endCol    == span.startColumn + span.columnSpan
  IN IF span.rowSpan = 1 /\ span.columnSpan = 1 THEN startCell
     ELSE startCell \o Str(<<":">>) \o cellToExcelNotation(endRow, endCol)

formatCellSpan(span) ==
  LET startCell == cellToExcelNotation(span.startRow, span.startColumn)
      endRow    == span.startRow + span.rowSpan - 1
      endCol    == span.startColumn + span.columnSpan - 1
  IN IF span.rowSpan = 1 /\ span.columnSpan = 1 THEN startCell
     ELSE startCell \o Str(<<":">>) \o cellToExcelNotation(endRow, endCol)

formatCellSpanCoords(span) ==
  LET start == toString(span.startRow) \o Str(<<",">>) \o toString(span.startColumn)
  IN IF span.rowSpan = 1 /\ span.columnSpan = 1 THEN start
     ELSE start \o Str(<<":">>) \o toString(span.rowSpan)
                \o Str(<<"x">>) \o toString(span.columnSpan)

---------------------------------------------------------------------------
(* Grid manager *)

\* DEFAULT_GRID_CONFIG, the values initializeGridState falls back to.
DEFAULT_GRID_CONFIG ==
  [rows |-> 3, columns |-> 3, monitorIndex |-> 0,
   cellGapHorizontal |-> 4, cellGapVertical |-> 4,
   marginTop |-> 0, marginBottom |-> 0, marginLeft |-> 0, marginRight |-> 0]

\* config ?? default, field by field: partial is a record holding some of the
\* fields of a GridConfig.
initializeGridState(desktopIndex, partial) ==
  [desktopIndex |-> desktopIndex,
   config       |-> [f \in DOMAIN DEFAULT_GRID_CONFIG |->
                       IF f \in DOMAIN partial THEN partial[f]
                       ELSE DEFAULT_GRID_CONFIG[f]],
   assignments  |-> << >>]

ParseFailure(error) == [success |-> FALSE, error |-> error]

ParseSuccess(span) == [success |-> TRUE, cellSpan |-> span]

\* The coordinate grammar, /^(\d+)\s*,\s*(\d+)(?:\s*:\s*(\d+)\s*[xX]\s*(\d+))?$/,
\* matched against t: Null when it does not match, else the four groups
\* (the last two empty when the optional part is absent).
CoordMatch(t) ==
  LET r1 == SkipDigits(t, 1)
      c0 == SkipSpace(t, SkipSpace(t, r1) + 1)
      c1 == SkipDigits(t, c0)
      s0 == SkipSpace(t, SkipSpace(t, c1) + 1)
      s1 == SkipDigits(t, s0)
      xp == SkipSpace(t, s1)
      d0 == SkipSpace(t, xp + 1)
      d1 == SkipDigits(t, d0)
  IN IF ~(r1 > 1 /\ CharAt(t, SkipSpace(t, r1), 44) /\ c1 > c0) THEN Null
     ELSE IF c1 = Len(t) + 1
       THEN [rowStr |-> SubSeq(t, 1, r1 - 1), colStr |-> SubSeq(t, c0, c1 - 1),
             rowSpanStr |-> << >>, colSpanStr |-> << >>]
     ELSE IF /\ CharAt(t, SkipSpace(t, c1), 58)
             /\ s1 > s0
             /\ (CharAt(t, xp, 120) \/ CharAt(t, xp, 88))
             /\ d1 > d0
             /\ d1 = Len(t) + 1
       THEN [rowStr |-> SubSeq(t, 1, r1 - 1), colStr |-> SubSeq(t, c0, c1 - 1),
             rowSpanStr |-> SubSeq(t, s0, s1 - 1),
             colSpanStr |-> SubSeq(t, d0, d1 - 1)]
     ELSE Null

\* The spreadsheet grammar, /^([A-Z]+)(\d+)(?::([A-Z]+)(\d+))?$/.
ExcelMatch(t) ==
  LET c1 == SkipLetters(t, 1)
      r1 == SkipDigits(t, c1)
      e0 == r1 + 1
      e1 == SkipLetters(t, e0)
      f1 == SkipDigits(t, e1)
  IN IF ~(c1 > 1 /\ r1 > c1) THEN Null
     ELSE IF r1 = Len(t) + 1
       THEN [startColStr |-> SubSeq(t, 1, c1 - 1),
             startRowStr |-> SubSeq(t, c1, r1 - 1),
             endColStr |-> << >>, endRowStr |-> << >>]
     ELSE IF CharAt(t, r1, 58) /\ e1 > e0 /\ f1 > e1 /\ f1 = Len(t) + 1
       THEN [startColStr |-> SubSeq(t, 1, c1 - 1),
             startRowStr |-> SubSeq(t, c1, r1 - 1),
             endColStr |-> SubSeq(t, e0, e1 - 1),
             endRowStr |-> SubSeq(t, e1, f1 - 1)]
     ELSE Null

\* The coordinate branch of parseCellSpec, m the match.
ParseCoord(m) ==
  LET row     == parseInt(m.rowStr)
      col     == parseInt(m.colStr)
      rowSpan == IF m.rowSpanStr # << >> THEN parseInt(m.rowSpanStr) ELSE 1
      colSpan == IF m.colSpanStr # << >> THEN parseInt(m.colSpanStr) ELSE 1
  IN IF rowSpan < 1 \/ colSpan < 1
     THEN ParseFailure("Span dimensions must be at least 1")
     ELSE ParseSuccess([startRow |-> row, startColumn |-> col,
                        rowSpan |-> rowSpan, columnSpan |-> colSpan])

\* The spreadsheet branch with the range taken as typed: the first cell is
\* the start, the second the end.
ParseExcelAsTyped(m) ==
  LET startCell == excelNotationToCell(m.startColStr \o m.startRowStr)
      endCell   == excelNotationToCell(m.endColStr \o m.endRowStr)
  IN IF startCell = Null THEN ParseFailure("Invalid cell notation")
     ELSE IF m.endColStr # << >> /\ m.endRowStr # << >>
       THEN IF endCell = Null THEN ParseFailure("Invalid cell notation")
            ELSE ParseSuccess([startRow |-> startCell.row,
                               startColumn |-> startCell.column,
                               rowSpan |-> endCell.row - startCell.row + 1,
                               columnSpan |-> endCell.column - startCell.column + 1])
     ELSE ParseSuccess(singleCell(startCell.row, startCell.column))

\* The spreadsheet branch of parseCellSpec, m the match.
ParseExcel(m) ==
  LET startCell == excelNotationToCell(m.startColStr \o m.startRowStr)
      endCell   == excelNotationToCell(m.endColStr \o m.endRowStr)
  IN IF startCell = Null THEN ParseFailure("Invalid cell notation")
     ELSE IF m.endColStr # << >> /\ m.endRowStr # << >>
       THEN IF endCell = Null THEN ParseFailure("Invalid cell notation")
            ELSE LET minRow == Min(startCell.row, endCell.row)
                     minCol == Min(startCell.column, endCell.column)
                     maxRow == Max(startCell.row, endCell.row)
                     maxCol == Max(startCell.column, endCell.column)
                 IN ParseSuccess([startRow |-> minRow, startColumn |-> minCol,
                                  rowSpan |-> maxRow - minRow + 1,
                                  columnSpan |-> maxCol - minCol + 1])
     ELSE ParseSuccess(singleCell(startCell.row, startCell.column))

parseCellSpec(spec) ==
  LET trimmed    == toUpperCase(trim(spec))
      coordMatch == CoordMatch(trimmed)
      excelMatch == ExcelMatch(trimmed)
  IN IF coordMatch # Null THEN ParseCoord(coordMatch)
     ELSE IF excelMatch # Null THEN ParseExcel(excelMatch)
     ELSE ParseFailure("Invalid cell specification")

\* The optional excludeWindowId argument: left out, or a window id.
NoExclude == [given |-> FALSE, id |-> ""]

Exclude(windowId) == [given |-> TRUE, id |-> windowId]

\* The truthiness test `excludeWindowId && ...`: undefined and the empty
\* string are both falsy.
Truthy(excludeWindowId) == excludeWindowId.given /\ excludeWindowId.id # ""

\* The first assignment of the list, from position i on, that is not skipped
\* and overlaps the span: the for loop of validateCellSpan.
RECURSIVE FirstOverlap(_, _, _, _)
FirstOverlap(span, assignments, excludeWindowId, i) ==
  IF i > Len(assignments) THEN Null
  ELSE IF Truthy(excludeWindowId) /\ assignments[i].windowId = excludeWindowId.id
    THEN FirstOverlap(span, assignments, excludeWindowId, i + 1)
  ELSE IF cellSpansOverlap(span, assignments[i].cellSpan) THEN assignments[i]
  ELSE FirstOverlap(span, assignments, excludeWindowId, i + 1)

\* validateCellSpan without its loop over the assignments.
validateCellSpanBoundsOnly(span, state, excludeWindowId) ==
  IF ~isWithinGrid(span, state.config)
  THEN [valid |-> FALSE, error |-> "outside grid bounds"]
  ELSE [valid |-> TRUE]

\* The error is kept as its parts: which check failed and, for an overlap, the
\* window id and span the message names.
validateCellSpan(span, state, excludeWindowId) ==
  LET hit == FirstOverlap(span, state.assignments, excludeWindowId, 1)
  IN IF ~isWithinGrid(span, state.config)
     THEN [valid |-> FALSE, error |-> "outside grid bounds"]
     ELSE IF hit # Null
     THEN [valid |-> FALSE, error |-> "overlaps with window",
           windowId |-> hit.windowId, cellSpan |-> hit.cellSpan]
     ELSE [valid |-> TRUE]

\* The key `${row},${column}` a cell is kept under in the occupied set.
CellKey(row, column) == toString(row) \o <<44>> \o toString(column)

\* The occupied set of getAvailableCells: the keys of the cells of every
\* assignment.
Occupied(state) ==
  UNION { { CellKey(getCellsInSpan(state.assignments[i].cellSpan)[k].row,
                    getCellsInSpan(state.assignments[i].cellSpan)[k].column) :
              k \in DOMAIN getCellsInSpan(state.assignments[i].cellSpan) } :
          i \in DOMAIN state.assignments }

\* The cells of the grid from the k-th (counted from 0, row-major) on that are
\* not occupied.
RECURSIVE AvailableFrom(_, _, _)
AvailableFrom(k, config, occupied) ==
  LET cell == [row |-> k \div config.columns, column |-> k % config.columns]
  IN IF k >= config.rows * config.columns THEN << >>
     ELSE IF CellKey(cell.row, cell.column) \in occupied
       THEN AvailableFrom(k + 1, config, occupied)
     ELSE <<cell>> \o AvailableFrom(k + 1, config, occupied)

\* getAvailableCells with only the first cell of each assignment's span taken
\* as occupied.
getAvailableCellsFirstCellOnly(state) ==
  IF state.config.columns <= 0 THEN << >>
  ELSE AvailableFrom(0, state.config,
         { CellKey(state.assignments[i].cellSpan.startRow,
                   state.assignments[i].cellSpan.startColumn) :
             i \in DOMAIN state.assignments })

getAvailableCells(state) ==
  IF state.config.columns <= 0 THEN << >>
  ELSE AvailableFrom(0, state.config, Occupied(state))

\* The two nested loops of findAvailableSpan from (row, col) on.
RECURSIVE FindFrom(_, _, _, _, _)
FindFrom(row, col, rowSpan, columnSpan, state) ==
  LET testSpan == [startRow |-> row, startColumn |-> col,
                   rowSpan |-> rowSpan, columnSpan |-> columnSpan]
  IN IF row > state.config.rows - rowSpan THEN Null
     ELSE IF col > state.config.columns - columnSpan
       THEN FindFrom(row + 1, 0, rowSpan, columnSpan, state)
     ELSE IF validateCellSpan(testSpan, state, NoExclude).valid THEN testSpan
     ELSE FindFrom(row, col + 1, rowSpan, columnSpan, state)

\* findAvailableSpan with < where the loops compare with <=: the last row
\* and the last column of origins are never tried.
RECURSIVE FindFromStrict(_, _, _, _, _)
FindFromStrict(row, col, rowSpan, columnSpan, state) ==
  LET testSpan == [startRow |-> row, startColumn |-> col,
                   rowSpan |-> rowSpan, columnSpan |-> columnSpan]
  IN IF row >= state.config.rows - rowSpan THEN Null
     ELSE IF col >= state.config.columns - columnSpan
       THEN FindFromStrict(row + 1, 0, rowSpan, columnSpan, state)
     ELSE IF validateCellSpan(testSpan, state, NoExclude).valid THEN testSpan
     ELSE FindFromStrict(row, col + 1, rowSpan, columnSpan, state)

findAvailableSpanStrict(rowSpan, columnSpan, state) ==
  FindFromStrict(0, 0, rowSpan, columnSpan, state)

findAvailableSpan(rowSpan, columnSpan, state) ==
  FindFrom(0, 0, rowSpan, columnSpan, state)

\* assignWindowToGrid without the filter that drops the window's prior
\* assignment.
assignWindowToGridAppendOnly(windowId, span, state) ==
  [state EXCEPT !.assignments =
     Append(state.assignments, [windowId |-> windowId, cellSpan |-> span])]

\* assignWindowToGrid refusing a span that validateCellSpan rejects: the state
\* is returned as it was.
assignWindowToGridValidated(windowId, span, state) ==
  IF validateCellSpan(span, state, Exclude(windowId)).valid
  THEN LET newAssignments ==
             SelectSeq(state.assignments, LAMBDA a : a.windowId # windowId)
       IN [state EXCEPT !.assignments =
             Append(newAssignments, [windowId |-> windowId, cellSpan |-> span])]
  ELSE state

\* assignWindowToGrid that leaves a window that is already placed where it is.
assignWindowToGridOnce(windowId, span, state) ==
  IF \E i \in DOMAIN state.assignments : state.assignments[i].windowId = windowId
  THEN state
  ELSE [state EXCEPT !.assignments =
          Append(state.assignments, [windowId |-> windowId, cellSpan |-> span])]

assignWindowToGrid(windowId, span, state) ==
  LET newAssignments ==
        SelectSeq(state.assignments, LAMBDA a : a.windowId # windowId)
  IN [state EXCEPT !.assignments =
        Append(newAssignments, [windowId |-> windowId, cellSpan |-> span])]

\* removeWindowFromGrid with the filter's test turned round: it keeps the
\* window's assignment and drops the others.
removeWindowFromGridKeepingIt(windowId, state) ==
  [state EXCEPT !.assignments =
     SelectSeq(state.assignments, LAMBDA a : a.windowId = windowId)]

removeWindowFromGrid(windowId, state) ==
  [state EXCEPT !.assignments =
     SelectSeq(state.assignments, LAMBDA a : a.windowId # windowId)]

\* Array.prototype.find over the assignments.
RECURSIVE FindAssignment(_, _, _)
FindAssignment(windowId, assignments, i) ==
  IF i > Len(assignments) THEN Null
  ELSE IF assignments[i].windowId = windowId THEN assignments[i]
  ELSE FindAssignment(windowId, assignments, i + 1)

getWindowCellSpan(windowId, state) ==
  LET assignment == FindAssignment(windowId, state.assignments, 1)
  IN IF assignment # Null THEN assignment.cellSpan ELSE Null

\* What a call returns: a value, or the error it throws.
Returned(value) == [threw |-> FALSE, value |-> value]

Threw(error) == [threw |-> TRUE, error |-> error]

\* swapWindowPositions that gives the second window its own span back (span2
\* where the code writes span1).
swapWindowPositionsOneWay(windowId1, windowId2, state) ==
  LET span1 == getWindowCellSpan(windowId1, state)
      span2 == getWindowCellSpan(windowId2, state)
  IN IF span1 = Null \/ span2 = Null
     THEN Threw("Both windows must have grid assignments to swap")
     ELSE Returned([state EXCEPT !.assignments =
            [i \in DOMAIN state.assignments |->
               LET a == state.assignments[i]
               IN IF a.windowId = windowId1 THEN [a EXCEPT !.cellSpan = span2]
                  ELSE a]])

\* swapWindowPositions that exchanges the two assignments' places in the list
\* instead of their spans.
swapWindowPositionsInList(windowId1, windowId2, state) ==
  LET span1 == getWindowCellSpan(windowId1, state)
      span2 == getWindowCellSpan(windowId2, state)
  IN IF span1 = Null \/ span2 = Null
     THEN Threw("Both windows must have grid assignments to swap")
     ELSE Returned([state EXCEPT !.assignments =
            [i \in DOMAIN state.assignments |->
               LET a == state.assignments[i]
               IN IF a.windowId = windowId1
                  THEN [windowId |-> windowId2, cellSpan |-> span2]
                  ELSE IF a.windowId = windowId2
                  THEN [windowId |-> windowId1, cellSpan |-> span1]
                  ELSE a]])

swapWindowPositions(windowId1, windowId2, state) ==
  LET span1 == getWindowCellSpan(windowId1, state)
      span2 == getWindowCellSpan(windowId2, state)
  IN IF span1 = Null \/ span2 = Null
     THEN Threw("Both windows must have grid assignments to swap")
     ELSE Returned([state EXCEPT !.assignments =
            [i \in DOMAIN state.assignments |->
               LET a == state.assignments[i]
               IN IF a.windowId = windowId1 THEN [a EXCEPT !.cellSpan = span2]
                  ELSE IF a.windowId = windowId2 THEN [a EXCEPT !.cellSpan = span1]
                  ELSE a]])

---------------------------------------------------------------------------
(* Canvas API: grid entry points *)

\* A position argument of assignToGrid: a cell specification string or a
\* CellSpan object.
SpecPosition(spec) == [type |-> "string", value |-> spec]

SpanPosition(span) == [type |-> "object", value |-> span]

\* assignToGrid without the early return on a failed validation.
assignToGridUnchecked(windowId, position, state) ==
  LET parsed == parseCellSpec(position.value)
  IN IF position.type = "string" /\ ~parsed.success
     THEN [success |-> FALSE, error |-> parsed.error]
     ELSE LET span == IF position.type = "string" THEN parsed.cellSpan
                      ELSE position.value
          IN [success |-> TRUE,
              gridState |-> assignWindowToGrid(windowId, span, state)]

assignToGrid(windowId, position, state) ==
  LET parsed == parseCellSpec(position.value)
  IN IF position.type = "string" /\ ~parsed.success
     THEN [success |-> FALSE, error |-> parsed.error]
     ELSE LET span == IF position.type = "string" THEN parsed.cellSpan
                      ELSE position.value
              validation == validateCellSpan(span, state, Exclude(windowId))
          IN IF ~validation.valid
             THEN [success |-> FALSE, error |-> validation.error]
             ELSE [success |-> TRUE,
                   gridState |-> assignWindowToGrid(windowId, span, state)]

removeFromGrid(windowId, state) == removeWindowFromGrid(windowId, state)

---------------------------------------------------------------------------
(* Inputs *)

\* Window identifiers: opaque strings, the empty string among them.
Windows == {"", "A", "B"}

\* The config overrides a grid is created with: grids smaller than the 3x3
\* default (the other fields keep their defaults).
PartialConfigs ==
  { [rows |-> 1, columns |-> 1],
    [rows |-> 2, columns |-> 2],
    [rows |-> 2, columns |-> 3] }

\* The runs <<start, size>> along an axis of n cells that callers pass: they
\* start from one cell before the grid to one cell after it and end at most
\* MaxOverhang cells after it.
AxisRuns(n) ==
  { run \in (-1..n) \X (1..(n + MaxOverhang)) : run[1] + run[2] <= n + MaxOverhang }

InputSpans(config) ==
  { [startRow |-> r[1], startColumn |-> c[1], rowSpan |-> r[2], columnSpan |-> c[2]] :
      r \in AxisRuns(config.rows), c \in AxisRuns(config.columns) }

\* Cell specification strings callers pass as a position.
PositionSpecs ==
  { Str(<<"A", "1">>), Str(<<"b", "2">>), Str(<<"B", "2", ":", "A", "1">>),
    Str(<<"A", "1", ":", "C", "1">>), Str(<<"1", ",", "1">>),
    Str(<<"0", ",", "1", ":", "2", "x", "1">>),
    Str(<<"0", ",", "0", ":", "0", "x", "1">>), Str(<<"A", "0">>), Str(<< >>) }

\* The spans of InputSpans that lie in the grid.
InGridSpans(config) == { span \in InputSpans(config) : isWithinGrid(span, config) }

\* Two spans that stick out of the grid: one past the last row, one above the
\* first.
OutsideSpans(config) ==
  { singleCell(config.rows, 0),
    [startRow |-> -1, startColumn |-> 0, rowSpan |-> 2, columnSpan |-> 1] }

\* The assignment lists assignWindowToGrid builds for the windows ws from the
\* spans given: any order, each window at most once, any span (it validates
\* nothing).
AssignmentLists(ws, spans) ==
  LET Assignment == [windowId : ws, cellSpan : spans]
  IN UNION { { l \in [1..n -> Assignment] :
                 \A i, j \in 1..n : i < j => l[i].windowId # l[j].windowId } :
             n \in 0..Cardinality(ws) }

\* The optional excludeWindowId argument as callers pass it.
Excludes == {NoExclude} \cup { Exclude(w) : w \in Windows }

\* The span sizes callers ask findAvailableSpan for along an axis of n cells.
RequestSizes(n) == 1..(n + MaxOverhang)

---------------------------------------------------------------------------
(* The canvas API's grid: a caller that places windows through assignToGrid *)
(* and takes them off with removeFromGrid.                                  *)

InitGrid ==
  /\ \E partial \in PartialConfigs : gridState = initializeGridState(0, partial)
  /\ call = [op |-> "createGridState"]

\* The caller keeps the returned state when the call succeeds, and the one it
\* had otherwise.
AssignToGrid(windowId, position) ==
  LET result == assignToGrid(windowId, position, gridState)
  IN /\ gridState' = IF result.success THEN result.gridState ELSE gridState
     /\ call' = [op |-> "assignToGrid", success |-> result.success]

RemoveFromGrid(windowId) ==
  /\ gridState' = removeFromGrid(windowId, gridState)
  /\ call' = [op |-> "removeFromGrid"]

NextGrid ==
  \/ \E w \in Windows, span \in InputSpans(gridState.config) :
       AssignToGrid(w, SpanPosition(span))
  \/ \E w \in Windows, spec \in PositionSpecs :
       AssignToGrid(w, SpecPosition(spec))
  \/ \E w \in Windows : RemoveFromGrid(w)

SpecGrid == InitGrid /\ [][NextGrid]_vars

---------------------------------------------------------------------------
(* The grid manager's read-only functions, each applied once to a GridState *)
(* that assignWindowToGrid calls have built.                                *)

QueryConfigs == { [rows |-> 2, columns |-> 2], [rows |-> 1, columns |-> 3] }

QueryWindows == {"", "A"}

Init ==
  /\ \E partial \in QueryConfigs :
       LET fresh == initializeGridState(0, partial)
       IN \E l \in AssignmentLists(QueryWindows,
                     InGridSpans(fresh.config) \cup OutsideSpans(fresh.config)) :
            gridState = [fresh EXCEPT !.assignments = l]
  /\ call = [op |-> "none"]

ValidateCellSpan(span, excludeWindowId) ==
  /\ call.op = "none"
  /\ call' = [op |-> "validateCellSpan", cellSpan |-> span,
              excludeWindowId |-> excludeWindowId,
              result |-> validateCellSpan(span, gridState, excludeWindowId)]
  /\ UNCHANGED gridState

FindAvailableSpan(rowSpan, columnSpan) ==
  /\ call.op = "none"
  /\ call' = [op |-> "findAvailableSpan", rowSpan |-> rowSpan,
              columnSpan |-> columnSpan,
              result |-> findAvailableSpan(rowSpan, columnSpan, gridState)]
  /\ UNCHANGED gridState

GetAvailableCells ==
  /\ call.op = "none"
  /\ call' = [op |-> "getAvailableCells", result |-> getAvailableCells(gridState)]
  /\ UNCHANGED gridState

\* A caller that asks about a span and lists the available cells of the same
\* state.
ValidateAndListAvailable(span) ==
  /\ call.op = "none"
  /\ call' = [op |-> "validateCellSpan, getAvailableCells", cellSpan |-> span,
              result |-> validateCellSpan(span, gridState, NoExclude),
              availableCells |-> getAvailableCells(gridState)]
  /\ UNCHANGED gridState

\* A caller that searches for a span and lists the available cells of the
\* same state.
FindAndListAvailable(rowSpan, columnSpan) ==
  /\ call.op = "none"
  /\ call' = [op |-> "findAvailableSpan, getAvailableCells",
              rowSpan |-> rowSpan, columnSpan |-> columnSpan,
              result |-> findAvailableSpan(rowSpan, columnSpan, gridState),
              availableCells |-> getAvailableCells(gridState)]
  /\ UNCHANGED gridState

Next ==
  \/ \E span \in InputSpans(gridState.config), ex \in Excludes :
       ValidateCellSpan(span, ex)
  \/ \E rowSpan \in RequestSizes(gridState.config.rows),
        columnSpan \in RequestSizes(gridState.config.columns) :
       FindAvailableSpan(rowSpan, columnSpan)
  \/ GetAvailableCells
  \/ \E span \in InputSpans(gridState.config) : ValidateAndListAvailable(span)
  \/ \E rowSpan \in RequestSizes(gridState.config.rows),
        columnSpan \in RequestSizes(gridState.config.columns) :
       FindAndListAvailable(rowSpan, columnSpan)

Spec == Init /\ [][Next]_vars

---------------------------------------------------------------------------
(* The grid manager's state-returning functions, applied to a GridState    *)
(* that assignWindowToGrid calls have built; the caller keeps the state     *)
(* each call returns.                                                       *)

UpdateConfigs == { [rows |-> 2, columns |-> 2] }

\* The spans of the windows already placed and of the windows to place: two
\* cells, a column of two cells, and a cell past the last row.
UpdateSpans(config) ==
  { singleCell(0, 0), singleCell(0, 1),
    [startRow |-> 0, startColumn |-> 0, rowSpan |-> 2, columnSpan |-> 1],
    singleCell(config.rows, 0) }

InitUpdate ==
  /\ \E partial \in UpdateConfigs :
       LET fresh == initializeGridState(0, partial)
       IN \E l \in AssignmentLists(Windows, UpdateSpans(fresh.config)) :
            gridState = [fresh EXCEPT !.assignments = l]
  /\ call = [op |-> "none"]

AssignWindowToGrid(windowId, span) ==
  /\ call.op = "none"
  /\ gridState' = assignWindowToGrid(windowId, span, gridState)
  /\ call' = [op |-> "assignWindowToGrid", windowId |-> windowId,
              cellSpan |-> span, before |-> gridState.assignments]

\* The same call made a second time, on the state the first one returned.
AssignWindowToGridAgain ==
  /\ call.op = "assignWindowToGrid"
  /\ gridState' = assignWindowToGrid(call.windowId, call.cellSpan, gridState)
  /\ call' = [op |-> "assignWindowToGridAgain", windowId |-> call.windowId,
              cellSpan |-> call.cellSpan, before |-> gridState.assignments]

\* A swap that throws returns no state: the caller still holds the one it had.
SwapWindowPositions(windowId1, windowId2) ==
  LET result == swapWindowPositions(windowId1, windowId2, gridState)
  IN /\ call.op = "none"
     /\ gridState' = IF result.threw THEN gridState ELSE result.value
     /\ call' = [op |-> "swapWindowPositions", windowId1 |-> windowId1,
                 windowId2 |-> windowId2, before |-> gridState.assignments,
                 threw |-> result.threw]

RemoveWindowFromGrid(windowId) ==
  /\ call.op = "none"
  /\ gridState' = removeWindowFromGrid(windowId, gridState)
  /\ call' = [op |-> "removeWindowFromGrid", windowId |-> windowId,
              before |-> gridState.assignments]

NextUpdate ==
  \/ \E w \in Windows, span \in UpdateSpans(gridState.config) :
       AssignWindowToGrid(w, span)
  \/ AssignWindowToGridAgain
  \/ \E w1 \in Windows, w2 \in Windows : SwapWindowPositions(w1, w2)
  \/ \E w \in Windows : RemoveWindowFromGrid(w)

SpecUpdate == InitUpdate /\ [][NextUpdate]_vars

---------------------------------------------------------------------------
(* The cell calculator's functions, each applied to inputs drawn at the     *)
(* start: a cell address is formatted and the text parsed back; the space   *)
(* a layout leaves over is computed for a configuration and a monitor.      *)

MaxRow == 12

MaxColumn == 730

MaxGridDim == 3

\* Row numbers: the small ones, and those where the decimal text grows.
CellRows == (0..MaxRow) \cup {98, 99, 998, 999}

\* Column numbers through one, two (from 26) and three (from 702) letters.
CellColumns == 0..MaxColumn

GapSizes == {-2, 0, 4}

LayoutConfigs ==
  [rows : 1..MaxGridDim, columns : 1..MaxGridDim,
   cellGapHorizontal : GapSizes, cellGapVertical : GapSizes,
   marginTop : {0, 5}, marginBottom : {0, 3},
   marginLeft : {0, 5}, marginRight : {0, 3}]

\* The MonitorInfo fields the calculator reads.
Monitors ==
  { [workAreaX |-> 0, workAreaY |-> 0, workAreaWidth |-> size[1],
     workAreaHeight |-> size[2]] :
      size \in {<<1920, 1040>>, <<1366, 728>>, <<7, 5>>, <<1, 1>>, <<0, 0>>} }

InitCalc ==
  \/ /\ gridState = initializeGridState(0, << >>)
     /\ \E row \in CellRows, column \in CellColumns :
          call = [op |-> "cell", row |-> row, column |-> column]
  \/ /\ \E partial \in LayoutConfigs : gridState = initializeGridState(0, partial)
     /\ \E monitor \in Monitors : call = [op |-> "monitor", monitor |-> monitor]

CellToExcelNotation ==
  /\ call.op = "cell"
  /\ call' = [op |-> "cellToExcelNotation", row |-> call.row,
              column |-> call.column,
              result |-> cellToExcelNotation(call.row, call.column)]
  /\ UNCHANGED gridState

\* The text cellToExcelNotation returned is handed to excelNotationToCell.
ExcelNotationToCell ==
  /\ call.op = "cellToExcelNotation"
  /\ call' = [op |-> "excelNotationToCell", row |-> call.row,
              column |-> call.column, notation |-> call.result,
              result |-> excelNotationToCell(call.result)]
  /\ UNCHANGED gridState

CalculateRemainingSpace ==
  /\ call.op = "monitor"
  /\ call' = [op |-> "calculateRemainingSpace", monitor |-> call.monitor,
              result |-> calculateRemainingSpace(gridState.config, call.monitor)]
  /\ UNCHANGED gridState

NextCalc ==
  \/ CellToExcelNotation
  \/ ExcelNotationToCell
  \/ CalculateRemainingSpace

SpecCalc == InitCalc /\ [][NextCalc]_vars

---------------------------------------------------------------------------
(* parseCellSpec applied to a text drawn at the start: every short text    *)
(* over an alphabet of the characters the grammars use and one they do not, *)
(* coordinate spans, spreadsheet cells, and ranges typed in both orders.    *)

MaxSpecLen == 3

SpecAlphabet ==
  { CharCode[ch] : ch \in {"0", "1", "A", "b", "x", ",", ":", " ", "ß"} }

ShortSpecs == UNION { [1..n -> SpecAlphabet] : n \in 0..MaxSpecLen }

\* row,col:RxC with the separators written close and spaced.
CoordSpecs ==
  { toString(nums[1]) \o Str(seps[1]) \o toString(nums[2]) \o Str(seps[2])
      \o toString(nums[3]) \o Str(seps[3]) \o toString(nums[4]) :
      nums \in (0..1) \X (0..1) \X (0..2) \X (0..2),
      seps \in {<<",">>, <<" ", ",", " ">>} \X {<<":">>, <<" ", ":", " ">>}
                 \X {<<"x">>, <<"X">>, <<" ", "x", " ">>} }

\* The texts the tests and the documentation name.
NamedSpecs ==
  { Str(t) : t \in { <<"0", ",", "0", ":", "0", "x", "1">>,
                     <<"0", ",", "0", ":", "1", "x", "0">>,
                     <<"A", "0">>, <<"b", "0", "0">>,
                     <<"A", "1", ":", "B", "0">>, <<"A", "0", ":", "B", "1">>,
                     <<"A", "1", ":", "B", "2">>, <<"B", "2", ":", "A", "1">>,
                     <<" ", "1", " ", ",", " ", "2", " ">>,
                     <<"A", "1", " ", ":", " ", "B", "2">>,
                     <<"A", "1", ":", "1", ",", "1">>,
                     <<"ß", "1", ":", "A", "1">>,
                     <<"-", "1", ",", "0">>,
                     <<"A", "-", "1">> } }

toLowerCase(s) ==
  [i \in 1..Len(s) |-> IF s[i] \in UpperLetters THEN s[i] + 32 ELSE s[i]]

\* Valid spreadsheet cells, each with the address it was written from: in
\* capitals, in small letters, and with the row zero-padded.
RangeCells ==
  UNION { LET letters == ColumnLetters(at[2])
              digits  == toString(at[1] + 1)
          IN { [text |-> t, row |-> at[1], column |-> at[2]] :
                 t \in { letters \o digits, toLowerCase(letters) \o digits,
                         letters \o Str(<<"0">>) \o digits } } :
          at \in {0, 1, 2, 9} \X {0, 1, 2, 25, 26, 27} }

InitParse ==
  /\ gridState = initializeGridState(0, << >>)
  /\ \/ \E spec \in ShortSpecs \cup CoordSpecs \cup NamedSpecs :
          call = [op |-> "spec", spec |-> spec]
     \/ \E first \in RangeCells, second \in RangeCells :
          call = [op |-> "range", first |-> first, second |-> second]

ParseCellSpec ==
  /\ call.op = "spec"
  /\ call' = [op |-> "parseCellSpec", spec |-> call.spec,
              result |-> parseCellSpec(call.spec)]
  /\ UNCHANGED gridState

\* parseCellSpec("a:b")
ParseRange ==
  /\ call.op = "range"
  /\ call' = [op |-> "parseCellSpec range", first |-> call.first,
              second |-> call.second,
              result |-> parseCellSpec(call.first.text \o Str(<<":">>)
                                         \o call.second.text)]
  /\ UNCHANGED gridState

\* parseCellSpec("b:a") after parseCellSpec("a:b")
ParseRangeReversed ==
  /\ call.op = "parseCellSpec range"
  /\ call' = [op |-> "parseCellSpec reversed", first |-> call.first,
              second |-> call.second, forward |-> call.result,
              result |-> parseCellSpec(call.second.text \o Str(<<":">>)
                                         \o call.first.text)]
  /\ UNCHANGED gridState

NextParse ==
  \/ ParseCellSpec
  \/ ParseRange
  \/ ParseRangeReversed

SpecParse == InitParse /\ [][NextParse]_vars

---------------------------------------------------------------------------
(* The cell calculator's pixel functions, each applied once to a            *)
(* configuration and a monitor drawn at the start: the rectangle of a span, *)
(* and the cell at a pixel position.  The work areas are a few pixels wide  *)
(* so that every position in and around them is tried.                      *)

RectConfigs ==
  [rows : 1..MaxGridDim, columns : 1..MaxGridDim,
   cellGapHorizontal : {-1, 0, 2}, cellGapVertical : {0, 1},
   marginTop : {0, 1}, marginBottom : {0},
   marginLeft : {-1, 0, 1}, marginRight : {0, 2}]

\* A primary monitor whose work area is smaller than the gaps and margins of
\* some configurations, and a second one placed right of and above it.
RectMonitors ==
  { [workAreaX |-> 0, workAreaY |-> 0, workAreaWidth |-> 4, workAreaHeight |-> 2],
    [workAreaX |-> 20, workAreaY |-> -3, workAreaWidth |-> 11, workAreaHeight |-> 7] }

\* The pixel positions of the work area and of a border around it.
Positions(monitor) ==
  ((monitor.workAreaX - 2)..(monitor.workAreaX + monitor.workAreaWidth + 1))
    \X ((monitor.workAreaY - 1)..(monitor.workAreaY + monitor.workAreaHeight))

InitRect ==
  /\ \E partial \in RectConfigs : gridState = initializeGridState(0, partial)
  /\ \E monitor \in RectMonitors : call = [op |-> "monitor", monitor |-> monitor]

CalculateCellRect(span) ==
  /\ call.op = "monitor"
  /\ call' = [op |-> "calculateCellRect", monitor |-> call.monitor,
              cellSpan |-> span,
              result |-> calculateCellRect(span, gridState.config, call.monitor)]
  /\ UNCHANGED gridState

GetCellAtPosition(x, y) ==
  /\ call.op = "monitor"
  /\ call' = [op |-> "getCellAtPosition", monitor |-> call.monitor,
              x |-> x, y |-> y,
              result |-> getCellAtPosition(x, y, gridState.config, call.monitor)]
  /\ UNCHANGED gridState

NextRect ==
  \/ /\ call.op = "monitor"
     /\ \E span \in InGridSpans(gridState.config) \cup OutsideSpans(gridState.config) :
          CalculateCellRect(span)
  \/ /\ call.op = "monitor"
     /\ \E at \in Positions(call.monitor) : GetCellAtPosition(at[1], at[2])

SpecRect == InitRect /\ [][NextRect]_vars

---------------------------------------------------------------------------
(* The functions that build and compare spans, each applied once: the two   *)
(* constructors and the overlap test to arguments drawn from small ranges,  *)
(* parseCellSpec to a position text, and findAvailableSpan to a requested   *)
(* size of any sign on a grid that is empty, partly covered or full.        *)

\* Spans of one to three rows and columns, starting before, in and after a
\* small grid.
ComparedSpans ==
  [startRow : -1..2, startColumn : -1..2, rowSpan : 1..3, columnSpan : 1..3]

\* Arguments for the constructors and sizes to request: negative, zero and
\* positive.
AnyIntegers == -2..3

InitSpan ==
  /\ \E l \in AssignmentLists({"A"},
                { singleCell(0, 0),
                  [startRow |-> 0, startColumn |-> 0, rowSpan |-> 2, columnSpan |-> 2] }) :
       gridState = [initializeGridState(0, [rows |-> 2, columns |-> 2])
                      EXCEPT !.assignments = l]
  /\ call = [op |-> "none"]

SingleCell(row, column) ==
  /\ call.op = "none"
  /\ call' = [op |-> "singleCell", row |-> row, column |-> column,
              result |-> singleCell(row, column)]
  /\ UNCHANGED gridState

CellSpan(startRow, startColumn, rowSpan, columnSpan) ==
  /\ call.op = "none"
  /\ call' = [op |-> "cellSpan", startRow |-> startRow,
              startColumn |-> startColumn, rowSpan |-> rowSpan,
              columnSpan |-> columnSpan,
              result |-> cellSpan(startRow, startColumn, rowSpan, columnSpan)]
  /\ UNCHANGED gridState

CellSpansOverlap(a, b) ==
  /\ call.op = "none"
  /\ call' = [op |-> "cellSpansOverlap", a |-> a, b |-> b,
              result |-> cellSpansOverlap(a, b)]
  /\ UNCHANGED gridState

ParsePosition(spec) ==
  /\ call.op = "none"
  /\ call' = [op |-> "parseCellSpec", spec |-> spec,
              result |-> parseCellSpec(spec)]
  /\ UNCHANGED gridState

FindAvailableSpanOfAnySize(rowSpan, columnSpan) ==
  /\ call.op = "none"
  /\ call' = [op |-> "findAvailableSpan", rowSpan |-> rowSpan,
              columnSpan |-> columnSpan,
              result |-> findAvailableSpan(rowSpan, columnSpan, gridState)]
  /\ UNCHANGED gridState

\* Each function is applied once, to arguments of the caller's choosing.
NextSpan ==
  \/ /\ call.op = "none"
     /\ \E row \in AnyIntegers, column \in AnyIntegers : SingleCell(row, column)
  \/ /\ call.op = "none"
     /\ \E startRow \in AnyIntegers, startColumn \in AnyIntegers,
           rowSpan \in AnyIntegers, columnSpan \in AnyIntegers :
          CellSpan(startRow, startColumn, rowSpan, columnSpan)
  \/ /\ call.op = "none"
     /\ \E a \in ComparedSpans, b \in ComparedSpans : CellSpansOverlap(a, b)
  \/ /\ call.op = "none"
     /\ \E spec \in PositionSpecs : ParsePosition(spec)
  \/ /\ call.op = "none"
     /\ \E rowSpan \in AnyIntegers, columnSpan \in AnyIntegers :
          FindAvailableSpanOfAnySize(rowSpan, columnSpan)

SpecSpan == InitSpan /\ [][NextSpan]_vars

---------------------------------------------------------------------------
(* The states a caller reaches from initializeGridState by calling          *)
(* assignWindowToGrid alone, with spans it has not validated.               *)

PlacedWindows == {"A", "B"}

InitPlace ==
  /\ gridState = initializeGridState(0, [rows |-> 2, columns |-> 2])
  /\ call = [op |-> "initializeGridState"]

PlaceWindow(windowId, span) ==
  /\ gridState' = assignWindowToGrid(windowId, span, gridState)
  /\ call' = [op |-> "assignWindowToGrid", windowId |-> windowId,
              cellSpan |-> span]

NextPlace ==
  \E w \in PlacedWindows, span \in InputSpans(gridState.config) :
    PlaceWindow(w, span)

SpecPlace == InitPlace /\ [][NextPlace]_vars

---------------------------------------------------------------------------
(* The grid manager's asynchronous operations.  Each runs up to its first   *)
(* await, is resumed when the awaited service call settles, and runs to its *)
(* next await or to its end.  A step of an operation is what it does until  *)
(* it awaits or settles: the service call it starts, or its outcome.        *)

\* What a function without a return value returns.
Undefined == [undefined |-> TRUE]

\* The function starts monitor.getMonitor(index) and awaits it, keeping span.
AwaitGetMonitor(index, span) ==
  [pc |-> "getMonitor", index |-> index, span |-> span, rect |-> Null,
   outcome |-> Null]

\* The function starts positioner.setWindowPosition(handle, rect, ...) and
\* awaits it.
AwaitSetWindowPosition(windowHandle, rect) ==
  [pc |-> "setWindowPosition", index |-> Null, span |-> Null, rect |-> rect,
   outcome |-> Null]

\* The function's promise settles: fulfilled with a value or rejected.
Settled(outcome) ==
  [pc |-> "done", index |-> Null, span |-> Null, rect |-> Null,
   outcome |-> outcome]

\* monitors.find(m => m.index === index) || null on the list getAllMonitors
\* resolved with.
RECURSIVE FindMonitor(_, _, _)
FindMonitor(index, monitors, i) ==
  IF i > Len(monitors) THEN Null
  ELSE IF monitors[i].index = index THEN monitors[i]
  ELSE FindMonitor(index, monitors, i + 1)

getMonitor(index, monitors) == FindMonitor(index, monitors, 1)

\* calculateWindowRect up to its await: without an assignment it returns
\* null before it asks for the monitor.
calculateWindowRect(windowId, state) ==
  LET span == getWindowCellSpan(windowId, state)
  IN IF span = Null THEN Settled(Returned(Null))
     ELSE AwaitGetMonitor(state.config.monitorIndex, span)

\* calculateWindowRect from the monitor lookup to its return value.
calculateWindowRectWithMonitor(span, state, monitorInfo) ==
  IF monitorInfo = Null THEN Null
  ELSE calculateCellRect(span, state.config, monitorInfo)

\* positionWindow after a null rectangle too: it hands whatever
\* calculateWindowRect returned to setWindowPosition.
positionWindowUnguarded(windowId, windowHandle, rect) ==
  AwaitSetWindowPosition(windowHandle, rect)

\* positionWindow from the rectangle calculateWindowRect resolved with.
positionWindowWithRect(windowId, windowHandle, rect) ==
  IF rect = Null
  THEN Settled(Threw("No grid assignment found for window"))
  ELSE AwaitSetWindowPosition(windowHandle, rect)

\* getCellDimensions up to its await.
getCellDimensions(config) == AwaitGetMonitor(config.monitorIndex, Null)

\* getCellDimensions asking again when the monitor was not found.
getCellDimensionsRetrying(config, monitorInfo) ==
  IF monitorInfo = Null THEN AwaitGetMonitor(config.monitorIndex, Null)
  ELSE Settled(Returned(calculateAllCells(config, monitorInfo)))

\* getCellDimensions from the monitor lookup on.
getCellDimensionsWithMonitor(config, monitorInfo) ==
  IF monitorInfo = Null
  THEN Settled(Threw("Monitor not found"))
  ELSE Settled(Returned(calculateAllCells(config, monitorInfo)))

\* windowKinds.get(windowId) ?? null, the Map being a function on the window
\* ids that have an entry.
KindOf(windowKinds, windowId) ==
  IF windowId \in DOMAIN windowKinds THEN windowKinds[windowId] ELSE Null

\* getGridLayoutInfo up to its await.
getGridLayoutInfo(state, windowKinds) ==
  AwaitGetMonitor(state.config.monitorIndex, Null)

\* getGridLayoutInfo from the monitor lookup on.
getGridLayoutInfoWithMonitor(state, windowKinds, monitorInfo) ==
  IF monitorInfo = Null
  THEN Settled(Threw("Monitor not found"))
  ELSE Settled(Returned(
         [config |-> state.config,
          monitor |-> monitorInfo,
          dimensions |-> calculateAllCells(state.config, monitorInfo),
          assignments |->
            [i \in 1..Len(state.assignments) |->
               LET a == state.assignments[i]
               IN [windowId |-> a.windowId,
                   canvasKind |-> KindOf(windowKinds, a.windowId),
                   cellSpec |-> formatCellSpan(a.cellSpan),
                   position |-> calculateCellRect(a.cellSpan, state.config,
                                                  monitorInfo)]],
          availableCells |-> getAvailableCells(state)]))

---------------------------------------------------------------------------
(* A caller that makes one of the four asynchronous calls on a GridState    *)
(* built beforehand, while the Monitor Service and the Window Positioning   *)
(* Service answer in their own time.  call counts the service calls the     *)
(* operation has started.                                                   *)

\* The lists getAllMonitors resolves with: one monitor, or two.  Only the
\* fields the grid reads are kept.
LayoutMonitorLists ==
  LET primary == [index |-> 0, workAreaX |-> 0, workAreaY |-> 0,
                  workAreaWidth |-> 8, workAreaHeight |-> 6]
      second  == [index |-> 1, workAreaX |-> 8, workAreaY |-> -2,
                  workAreaWidth |-> 6, workAreaHeight |-> 4]
  IN { <<primary>>, <<primary, second>> }

\* The monitor a grid is configured for: 2 is never connected.
MonitorIndexes == {0, 1, 2}

LayoutWindows == {"A", "B"}

LayoutSpans ==
  { singleCell(0, 0), singleCell(1, 1),
    [startRow |-> 0, startColumn |-> 1, rowSpan |-> 2, columnSpan |-> 1] }

\* The windowKinds maps passed to getGridLayoutInfo: empty, or naming "A".
WindowKindMaps == { << >>, [w \in {"A"} |-> "calendar"] }

WindowHandles == {1001}

InitLayout ==
  /\ \E index \in MonitorIndexes :
       LET fresh == initializeGridState(
                      0, [rows |-> 2, columns |-> 2, monitorIndex |-> index,
                          cellGapHorizontal |-> 0, cellGapVertical |-> 0])
       IN \E l \in AssignmentLists(LayoutWindows, LayoutSpans) :
            gridState = [fresh EXCEPT !.assignments = l]
  /\ \E monitors \in LayoutMonitorLists :
       call = [op |-> "none", monitors |-> monitors]

\* The call record after the operation op took a step: a started lookup and a
\* started placement are counted.
Stepped(op, args, step, lookups, placements) ==
  [op |-> op, args |-> args, monitors |-> call.monitors,
   pc |-> step.pc, index |-> step.index, span |-> step.span,
   rect |-> step.rect, outcome |-> step.outcome,
   lookups    |-> lookups + (IF step.pc = "getMonitor" THEN 1 ELSE 0),
   placements |-> placements + (IF step.pc = "setWindowPosition" THEN 1 ELSE 0)]

NoArgs == [windowId |-> Null, windowHandle |-> Null, windowKinds |-> Null]

CalculateWindowRect(windowId) ==
  /\ call.op = "none"
  /\ call' = Stepped("calculateWindowRect",
                     [NoArgs EXCEPT !.windowId = windowId],
                     calculateWindowRect(windowId, gridState), 0, 0)
  /\ UNCHANGED gridState

\* positionWindow awaits calculateWindowRect, which is run as part of it.
PositionWindow(windowId, windowHandle) ==
  LET inner == calculateWindowRect(windowId, gridState)
  IN /\ call.op = "none"
     /\ call' = Stepped("positionWindow",
                        [NoArgs EXCEPT !.windowId = windowId,
                                       !.windowHandle = windowHandle],
                        IF inner.pc = "done"
                        THEN positionWindowWithRect(windowId, windowHandle,
                                                    inner.outcome.value)
                        ELSE inner,
                        0, 0)
     /\ UNCHANGED gridState

GetCellDimensions ==
  /\ call.op = "none"
  /\ call' = Stepped("getCellDimensions", NoArgs,
                     getCellDimensions(gridState.config), 0, 0)
  /\ UNCHANGED gridState

GetGridLayoutInfo(windowKinds) ==
  /\ call.op = "none"
  /\ call' = Stepped("getGridLayoutInfo",
                     [NoArgs EXCEPT !.windowKinds = windowKinds],
                     getGridLayoutInfo(gridState, windowKinds), 0, 0)
  /\ UNCHANGED gridState

\* The operation op resumed with the monitor its lookup resolved with.
ResumedWithMonitor(monitorInfo) ==
  CASE call.op = "calculateWindowRect" ->
         Settled(Returned(
           calculateWindowRectWithMonitor(call.span, gridState, monitorInfo)))
    [] call.op = "positionWindow" ->
         positionWindowWithRect(
           call.args.windowId, call.args.windowHandle,
           calculateWindowRectWithMonitor(call.span, gridState, monitorInfo))
    [] call.op = "getCellDimensions" ->
         getCellDimensionsWithMonitor(gridState.config, monitorInfo)
    [] call.op = "getGridLayoutInfo" ->
         getGridLayoutInfoWithMonitor(gridState, call.args.windowKinds,
                                      monitorInfo)

\* The Monitor Service answers: the monitor of that index, or null.
GetMonitorResolves ==
  /\ call.op # "none"
  /\ call.pc = "getMonitor"
  /\ call' = Stepped(call.op, call.args,
                     ResumedWithMonitor(getMonitor(call.index, call.monitors)),
                     call.lookups, call.placements)
  /\ UNCHANGED gridState

\* The Monitor Service fails (PowerShell exits with an error): none of the
\* four operations catches the rejection.
GetMonitorRejects ==
  /\ call.op # "none"
  /\ call.pc = "getMonitor"
  /\ call' = Stepped(call.op, call.args,
                     Settled(Threw("PowerShell exited with an error")),
                     call.lookups, call.placements)
  /\ UNCHANGED gridState

SetWindowPositionResolves ==
  /\ call.op # "none"
  /\ call.pc = "setWindowPosition"
  /\ call' = Stepped(call.op, call.args, Settled(Returned(Undefined)),
                     call.lookups, call.placements)
  /\ UNCHANGED gridState

\* positionWindow propagates the failure of setWindowPosition.
SetWindowPositionRejects ==
  /\ call.op # "none"
  /\ call.pc = "setWindowPosition"
  /\ call' = Stepped(call.op, call.args,
                     Settled(Threw("Failed to set window position")),
                     call.lookups, call.placements)
  /\ UNCHANGED gridState

NextLayout ==
  \/ /\ call.op = "none"
     /\ \E w \in Windows : CalculateWindowRect(w)
  \/ /\ call.op = "none"
     /\ \E w \in Windows, h \in WindowHandles : PositionWindow(w, h)
  \/ GetCellDimensions
  \/ /\ call.op = "none"
     /\ \E kinds \in WindowKindMaps : GetGridLayoutInfo(kinds)
  \/ GetMonitorResolves
  \/ GetMonitorRejects
  \/ SetWindowPositionResolves
  \/ SetWindowPositionRejects

SpecLayout == InitLayout /\ [][NextLayout]_vars

---------------------------------------------------------------------------
(* A caller that starts from initializeGridState and keeps the state that   *)
(* each assignWindowToGrid, removeWindowFromGrid and swapWindowPositions    *)
(* call returns.  call.last is the caller's own record of the calls it      *)
(* made: for each window the span it was last given, or null once removed.  *)

InitHistory ==
  /\ \E partial \in UpdateConfigs : gridState = initializeGridState(0, partial)
  /\ call = [op |-> "initializeGridState", before |-> << >>,
             last |-> [w \in Windows |-> Null]]

Assign(windowId, span) ==
  /\ gridState' = assignWindowToGrid(windowId, span, gridState)
  /\ call' = [op |-> "assignWindowToGrid", before |-> gridState.assignments,
              last |-> [call.last EXCEPT ![windowId] = span]]

Remove(windowId) ==
  /\ gridState' = removeWindowFromGrid(windowId, gridState)
  /\ call' = [op |-> "removeWindowFromGrid", before |-> gridState.assignments,
              last |-> [call.last EXCEPT ![windowId] = Null]]

\* A swap that throws returns no state: the caller still holds the one it had.
Swap(windowId1, windowId2) ==
  LET result == swapWindowPositions(windowId1, windowId2, gridState)
  IN IF result.threw
     THEN /\ gridState' = gridState
          /\ call' = [op |-> "swapWindowPositions threw",
                      before |-> gridState.assignments, last |-> call.last]
     ELSE /\ gridState' = result.value
          /\ call' = [op |-> "swapWindowPositions",
                      windowId1 |-> windowId1, windowId2 |-> windowId2,
                      before |-> gridState.assignments,
                      last |-> [call.last EXCEPT
                                  ![windowId1] = call.last[windowId2],
                                  ![windowId2] = call.last[windowId1]]]

\* The swap just made, made again on the state it returned.
SwapBack ==
  LET result == swapWindowPositions(call.windowId1, call.windowId2, gridState)
  IN /\ call.op = "swapWindowPositions"
     /\ ~result.threw
     /\ gridState' = result.value
     /\ call' = [op |-> "swapWindowPositions again",
                 original |-> call.before,
                 before |-> gridState.assignments,
                 last |-> [call.last EXCEPT
                             ![call.windowId1] = call.last[call.windowId2],
                             ![call.windowId2] = call.last[call.windowId1]]]

NextHistory ==
  \/ \E w \in Windows, span \in UpdateSpans(gridState.config) : Assign(w, span)
  \/ \E w \in Windows : Remove(w)
  \/ \E w1 \in Windows, w2 \in Windows : Swap(w1, w2)
  \/ SwapBack

SpecHistory == InitHistory /\ [][NextHistory]_vars

---------------------------------------------------------------------------
(* A span drawn at the start is formatted, in spreadsheet or in coordinate  *)
(* notation, and the text is handed to parseCellSpec.                       *)

\* Spans from the first rows and columns and from those where the row's
\* decimal text or the column's letters grow by one character.
FormattedSpans ==
  [startRow : {0, 1, 8, 9, 98, 99}, startColumn : {0, 1, 24, 25, 26, 700, 701, 702},
   rowSpan : {1, 2, 3, 10}, columnSpan : {1, 2, 3, 27}]

InitFormat ==
  /\ gridState = initializeGridState(0, << >>)
  /\ \E span \in FormattedSpans : call = [op |-> "span", cellSpan |-> span]

FormatCellSpan ==
  /\ call.op = "span"
  /\ call' = [op |-> "formatCellSpan", cellSpan |-> call.cellSpan,
              result |-> formatCellSpan(call.cellSpan)]
  /\ UNCHANGED gridState

FormatCellSpanCoords ==
  /\ call.op = "span"
  /\ call' = [op |-> "formatCellSpanCoords", cellSpan |-> call.cellSpan,
              result |-> formatCellSpanCoords(call.cellSpan)]
  /\ UNCHANGED gridState

\* The text a format function returned is handed to parseCellSpec.
ParseFormatted ==
  /\ call.op \in {"formatCellSpan", "formatCellSpanCoords"}
  /\ call' = [op |-> "parseCellSpec", formattedBy |-> call.op,
              cellSpan |-> call.cellSpan, spec |-> call.result,
              result |-> parseCellSpec(call.result)]
  /\ UNCHANGED gridState

NextFormat ==
  \/ FormatCellSpan
  \/ FormatCellSpanCoords
  \/ ParseFormatted

SpecFormat == InitFormat /\ [][NextFormat]_vars

---------------------------------------------------------------------------
(* Canvas API: spawnCanvasWithIPC.  One call is a closure over the locals   *)
(* resolved, timeoutId, connectionTimeoutId, clientConnected and server,    *)
(* which initServer, the four callbacks handed to createIPCServer and the   *)
(* two timer callbacks read and write.  c is that closure: the locals, the  *)
(* two timers as the runtime holds them, the state of the IPC server, where *)
(* initServer stands, and the values resolve was called with.               *)

\* The closure when the promise executor calls initServer.
NewClosure ==
  [pc |-> "createIPCServer",
   resolved |-> FALSE, clientConnected |-> FALSE,
   timeoutId |-> "null", connectionTimeoutId |-> "null",
   selectionTimer |-> "unset", connectionTimer |-> "unset",
   server |-> "null", broadcasts |-> 0, readySignals |-> 0,
   resolutions |-> << >>]

\* clearTimeout: a timer that is armed will not fire; one that fired or was
\* never set is left as it is.
ClearTimeout(timer) == IF timer = "armed" THEN "cleared" ELSE timer

cleanup(c) ==
  [c EXCEPT
     !.selectionTimer = IF c.timeoutId # "null" THEN ClearTimeout(@) ELSE @,
     !.timeoutId = "null",
     !.connectionTimer = IF c.connectionTimeoutId # "null" THEN ClearTimeout(@)
                         ELSE @,
     !.connectionTimeoutId = "null",
     !.server = IF c.server # "null" THEN "closed" ELSE @]

\* resolved = true; cleanup(); resolve(result)
ResolveWith(c, result) ==
  LET d == cleanup([c EXCEPT !.resolved = TRUE])
  IN [d EXCEPT !.resolutions = Append(@, result)]

Selected == [success |-> TRUE, outcome |-> "selected"]

Cancelled == [success |-> TRUE, outcome |-> "cancelled"]

Failure(error) == [success |-> FALSE, outcome |-> error]

onClientConnect(c) ==
  [c EXCEPT
     !.clientConnected = TRUE,
     !.connectionTimer = IF c.connectionTimeoutId # "null" THEN ClearTimeout(@)
                         ELSE @,
     !.connectionTimeoutId = "null"]

MessageTypes == {"ready", "selected", "cancelled", "error", "pong"}

\* onReady?.() is counted up to two calls.
onMessage(c, type) ==
  IF c.resolved THEN c
  ELSE CASE type = "ready" ->
              [c EXCEPT !.readySignals = IF @ < 2 THEN @ + 1 ELSE @]
         [] type = "selected" -> ResolveWith(c, Selected)
         [] type = "cancelled" -> ResolveWith(c, Cancelled)
         [] type = "error" -> ResolveWith(c, Failure("canvas error"))
         [] OTHER -> c

\* onClientDisconnect without its test of resolved.
onClientDisconnectUnguarded(c) ==
  ResolveWith(c, Failure("canvas disconnected unexpectedly"))

onClientDisconnect(c) ==
  IF ~c.resolved
  THEN ResolveWith(c, Failure("canvas disconnected unexpectedly"))
  ELSE c

onError(c) ==
  IF ~c.resolved THEN ResolveWith(c, Failure("ipc error")) ELSE c

\* The callback of the connection timer.
connectionTimeoutCallback(c) ==
  IF ~c.resolved /\ ~c.clientConnected
  THEN ResolveWith(c, Failure("connection timeout"))
  ELSE c

\* The callback of the selection timer that closes the canvas without
\* resolving the promise.
selectionTimeoutCallbackSilent(c) ==
  IF ~c.resolved
  THEN [c EXCEPT !.broadcasts = IF c.server # "null" THEN @ + 1 ELSE @]
  ELSE c

\* The callback of the selection timer: server?.broadcast({type: "close"})
\* comes between resolved = true and cleanup().
selectionTimeoutCallback(c) ==
  IF ~c.resolved
  THEN ResolveWith([c EXCEPT !.broadcasts = IF c.server # "null" THEN @ + 1
                                            ELSE @],
                   Failure("selection timeout"))
  ELSE c

\* initServer from the resolution of createIPCServer to its await of
\* spawnCanvas: the server is kept and both timers are armed.
initServerWithServer(c) ==
  [c EXCEPT !.server = "open",
            !.connectionTimeoutId = "set", !.connectionTimer = "armed",
            !.timeoutId = "set", !.selectionTimer = "armed",
            !.pc = "spawnCanvas"]

\* The catch block of initServer.
initServerCatch(c) ==
  LET d == [c EXCEPT !.pc = "returned"]
  IN IF ~d.resolved THEN ResolveWith(d, Failure("failed to spawn canvas"))
     ELSE d

---------------------------------------------------------------------------
(* One spawnCanvasWithIPC call, with the IPC server, the canvas process and *)
(* the timers acting in any order.  The callbacks of the server run from    *)
(* the moment createIPCServer has resolved; a timer fires only while it is  *)
(* armed.  call is the closure, with the event that ran last.               *)

InitSpawn ==
  /\ gridState = initializeGridState(0, << >>)
  /\ call = [op |-> "spawnCanvasWithIPC", event |-> "initServer",
             c |-> NewClosure]

After(event, c) == [op |-> "spawnCanvasWithIPC", event |-> event, c |-> c]

ServerCreated == call.op = "spawnCanvasWithIPC" /\ call.c.server # "null"

CreateIPCServerResolves ==
  /\ call.op = "spawnCanvasWithIPC"
  /\ call.c.pc = "createIPCServer"
  /\ call' = After("createIPCServer resolved", initServerWithServer(call.c))
  /\ UNCHANGED gridState

CreateIPCServerRejects ==
  /\ call.op = "spawnCanvasWithIPC"
  /\ call.c.pc = "createIPCServer"
  /\ call' = After("createIPCServer rejected", initServerCatch(call.c))
  /\ UNCHANGED gridState

SpawnCanvasResolves ==
  /\ call.op = "spawnCanvasWithIPC"
  /\ call.c.pc = "spawnCanvas"
  /\ call' = After("spawnCanvas resolved", [call.c EXCEPT !.pc = "returned"])
  /\ UNCHANGED gridState

SpawnCanvasRejects ==
  /\ call.op = "spawnCanvasWithIPC"
  /\ call.c.pc = "spawnCanvas"
  /\ call' = After("spawnCanvas rejected", initServerCatch(call.c))
  /\ UNCHANGED gridState

ClientConnects ==
  /\ ServerCreated
  /\ call' = After("client connected", onClientConnect(call.c))
  /\ UNCHANGED gridState

Message(type) ==
  /\ ServerCreated
  /\ call' = After(type, onMessage(call.c, type))
  /\ UNCHANGED gridState

ClientDisconnects ==
  /\ ServerCreated
  /\ call' = After("client disconnected", onClientDisconnect(call.c))
  /\ UNCHANGED gridState

IPCError ==
  /\ ServerCreated
  /\ call' = After("ipc error", onError(call.c))
  /\ UNCHANGED gridState

ConnectionTimerFires ==
  /\ call.op = "spawnCanvasWithIPC"
  /\ call.c.connectionTimer = "armed"
  /\ call' = After("connection timer fired",
                   connectionTimeoutCallback(
                     [call.c EXCEPT !.connectionTimer = "fired"]))
  /\ UNCHANGED gridState

SelectionTimerFires ==
  /\ call.op = "spawnCanvasWithIPC"
  /\ call.c.selectionTimer = "armed"
  /\ call' = After("selection timer fired",
                   selectionTimeoutCallback(
                     [call.c EXCEPT !.selectionTimer = "fired"]))
  /\ UNCHANGED gridState

NextSpawn ==
  \/ CreateIPCServerResolves
  \/ CreateIPCServerRejects
  \/ SpawnCanvasResolves
  \/ SpawnCanvasRejects
  \/ ClientConnects
  \/ \E type \in MessageTypes : Message(type)
  \/ ClientDisconnects
  \/ IPCError
  \/ ConnectionTimerFires
  \/ SelectionTimerFires

SpecSpawn == InitSpawn /\ [][NextSpawn]_vars

\* createIPCServer and spawnCanvas settle, and a timer that stays armed
\* fires.
SpecSpawnFair ==
  /\ SpecSpawn
  /\ WF_vars(CreateIPCServerResolves \/ CreateIPCServerRejects)
  /\ WF_vars(SpawnCanvasResolves \/ SpawnCanvasRejects)
  /\ WF_vars(ConnectionTimerFires)
  /\ WF_vars(SelectionTimerFires)

---------------------------------------------------------------------------
(* Canvas API: spawnCanvasInGrid *)

\* An optional field of the options: left out, or given a value.
Absent == [given |-> FALSE]

Given(value) == [given |-> TRUE, value |-> value]

\* option ?? fallback
OrElse(option, fallback) == IF option.given THEN option.value ELSE fallback

\* spawnCanvasInGrid up to its await of spawnCanvasWithIPC: the position is
\* chosen and the window assigned, or the function returns early.
spawnCanvasInGridPlaced(windowId, state, options) ==
  LET rows    == OrElse(options.rows, 1)
      columns == OrElse(options.columns, 1)
      parsed  == parseCellSpec(options.gridPosition.value)
      found   == findAvailableSpan(rows, columns, state)
      Early(error) == [returned |-> TRUE, cellSpan |-> Null,
                       result |-> Failure(error), gridState |-> state]
      Await(span) == [returned |-> FALSE, cellSpan |-> span, result |-> Null,
                      gridState |-> IF span # Null
                                    THEN assignWindowToGrid(windowId, span, state)
                                    ELSE state]
  IN IF options.gridPosition.given /\ Len(options.gridPosition.value) > 0
     THEN IF ~parsed.success THEN Early(parsed.error)
          ELSE IF ~validateCellSpan(parsed.cellSpan, state, NoExclude).valid
          THEN Early(validateCellSpan(parsed.cellSpan, state, NoExclude).error)
          ELSE Await(parsed.cellSpan)
     ELSE IF ~(options.autoPlace.given /\ options.autoPlace.value = FALSE)
     THEN IF found = Null
          THEN Early("No available grid cells for requested size")
          ELSE Await(found)
     ELSE Await(Null)

\* spawnCanvasInGrid that keeps the assignment of a canvas that failed.
spawnCanvasInGridKeeping(windowId, span, newGridState, result) ==
  newGridState

\* spawnCanvasInGrid from the result of spawnCanvasWithIPC to the state it
\* returns.
spawnCanvasInGridReturned(windowId, span, newGridState, result) ==
  IF ~result.success /\ span # Null
  THEN removeWindowFromGrid(windowId, newGridState)
  ELSE newGridState

---------------------------------------------------------------------------
(* A caller that spawns one canvas on a grid holding earlier windows and    *)
(* keeps the state spawnCanvasInGrid returns.                               *)

\* The window id generated for the canvas: a new one, or by coincidence the
\* id of a window the grid may already hold.
GeneratedWindowIds == {"calendar-1-abc", "A"}

SpawnOptions ==
  [gridPosition : {Absent} \cup { Given(spec) : spec \in PositionSpecs },
   autoPlace : {Absent, Given(TRUE), Given(FALSE)},
   rows : {Absent, Given(0), Given(2), Given(3)},
   columns : {Absent, Given(2)}]

\* What spawnCanvasWithIPC resolves with.
CanvasResults == {Selected, Cancelled, Failure("selection timeout")}

InitInGrid ==
  /\ \E l \in AssignmentLists({"A", "B"},
                { singleCell(0, 0), singleCell(1, 1),
                  [startRow |-> 0, startColumn |-> 0, rowSpan |-> 2, columnSpan |-> 2] }) :
       gridState = [initializeGridState(0, [rows |-> 2, columns |-> 2])
                      EXCEPT !.assignments = l]
  /\ call = [op |-> "none"]

\* The caller still holds the state it passed in until the call returns.
SpawnCanvasInGrid(windowId, options) ==
  LET placed == spawnCanvasInGridPlaced(windowId, gridState, options)
  IN /\ call.op = "none"
     /\ call' = [op |-> "spawnCanvasInGrid",
                 pc |-> IF placed.returned THEN "done" ELSE "spawnCanvasWithIPC",
                 windowId |-> windowId, options |-> options,
                 before |-> gridState.assignments,
                 cellSpan |-> placed.cellSpan,
                 newGridState |-> placed.gridState,
                 spawned |-> IF placed.returned THEN 0 ELSE 1,
                 result |-> placed.result]
     /\ UNCHANGED gridState

SpawnCanvasWithIPCResolves(result) ==
  /\ call.op = "spawnCanvasInGrid"
  /\ call.pc = "spawnCanvasWithIPC"
  /\ gridState' = spawnCanvasInGridReturned(call.windowId, call.cellSpan,
                                            call.newGridState, result)
  /\ call' = [call EXCEPT !.pc = "done", !.result = result]

NextInGrid ==
  \/ /\ call.op = "none"
     /\ \E windowId \in GeneratedWindowIds, options \in SpawnOptions :
          SpawnCanvasInGrid(windowId, options)
  \/ /\ call.op = "spawnCanvasInGrid"
     /\ \E result \in CanvasResults : SpawnCanvasWithIPCResolves(result)

SpecInGrid == InitInGrid /\ [][NextInGrid]_vars

---------------------------------------------------------------------------
(* Monitor info: the cache of getCachedMonitors.  monitorCache and          *)
(* cacheTimestamp are module variables shared by every call; a call that    *)
(* misses awaits getAllMonitors and writes both when the fetch resolves.    *)
(* Times are milliseconds of Date.now().  A fetch is known by the number of *)
(* clearMonitorCache calls that had returned when it was started.           *)

CACHE_TTL_MS == 5000

\* The clock is read at most this many steps of 2.5 s after the start.
MaxClockSteps == 3

\* At most this many clearMonitorCache calls are made.
MaxClears == 2

\* At most this many getCachedMonitors calls await their fetch at a time.
MaxAwaiting == 2

\* The module as loaded: nothing cached.  clock is Date.now().
CacheLoaded ==
  [monitorCache |-> Null, cacheTimestamp |-> 0,
   clock |-> 100000, clears |-> 0, awaiting |-> {}, returned |-> Null]

\* getCachedMonitors up to its return or its await: TRUE when it returns the
\* cache without fetching.
CacheHit(m, forceRefresh, now) ==
  /\ ~forceRefresh
  /\ m.monitorCache # Null
  /\ now - m.cacheTimestamp < CACHE_TTL_MS

clearMonitorCache(m) == [m EXCEPT !.monitorCache = Null, !.cacheTimestamp = 0]

InitCache ==
  /\ gridState = initializeGridState(0, << >>)
  /\ call = [op |-> "monitor-info", event |-> "loaded", m |-> CacheLoaded]

Cached(event, m) == [op |-> "monitor-info", event |-> event, m |-> m]

\* Date.now() moves on.
ClockAdvances ==
  /\ call.op = "monitor-info"
  /\ call.m.clock < 100000 + MaxClockSteps * 2500
  /\ call' = Cached("clock", [call.m EXCEPT !.clock = @ + 2500])
  /\ UNCHANGED gridState

\* A getCachedMonitors call starts: it returns the cache, or starts a fetch
\* and awaits it with its own now.
GetCachedMonitors(forceRefresh) ==
  LET m   == call.m
      now == m.clock
      started == [now |-> now, callStartedAfter |-> m.clears,
                  fetchStartedAfter |-> m.clears]
  IN /\ call.op = "monitor-info"
     /\ IF CacheHit(m, forceRefresh, now)
        THEN call' = Cached("getCachedMonitors returned the cache",
                       [m EXCEPT !.returned =
                          [callStartedAfter |-> m.clears,
                           monitors |-> m.monitorCache]])
        ELSE /\ Cardinality(m.awaiting) < MaxAwaiting
             /\ started \notin m.awaiting
             /\ call' = Cached("getCachedMonitors awaits getAllMonitors",
                          [m EXCEPT !.awaiting = @ \cup {started}])
     /\ UNCHANGED gridState

\* getAllMonitors resolves for one awaiting call, which stores what it got
\* with the now it read when it started, and returns it.
GetAllMonitorsResolves(awaited) ==
  LET monitors == [fetchStartedAfter |-> awaited.fetchStartedAfter]
  IN /\ call.op = "monitor-info"
     /\ awaited \in call.m.awaiting
     /\ call' = Cached("getAllMonitors resolved",
                  [call.m EXCEPT !.awaiting = @ \ {awaited},
                                 !.monitorCache = monitors,
                                 !.cacheTimestamp = awaited.now,
                                 !.returned =
                                   [callStartedAfter |-> awaited.callStartedAfter,
                                    monitors |-> monitors]])
     /\ UNCHANGED gridState

\* getAllMonitors rejects (PowerShell failed): the call rejects and the cache
\* stays as it is.
GetAllMonitorsRejects(awaited) ==
  /\ call.op = "monitor-info"
  /\ awaited \in call.m.awaiting
  /\ call' = Cached("getAllMonitors rejected",
               [call.m EXCEPT !.awaiting = @ \ {awaited}])
  /\ UNCHANGED gridState

ClearMonitorCache ==
  /\ call.op = "monitor-info"
  /\ call.m.clears < MaxClears
  /\ call' = Cached("clearMonitorCache",
               [clearMonitorCache(call.m) EXCEPT !.clears = @ + 1])
  /\ UNCHANGED gridState

NextCache ==
  \/ ClockAdvances
  \/ \E forceRefresh \in BOOLEAN : GetCachedMonitors(forceRefresh)
  \/ /\ call.op = "monitor-info"
     /\ \E awaited \in call.m.awaiting : GetAllMonitorsResolves(awaited)
  \/ /\ call.op = "monitor-info"
     /\ \E awaited \in call.m.awaiting : GetAllMonitorsRejects(awaited)
  \/ ClearMonitorCache

SpecCache == InitCache /\ [][NextCache]_vars

---------------------------------------------------------------------------
(* Properties *)

\* The cells a span covers, as a set.
SpanCells(span) ==
  { [row |-> r, column |-> c] :
      r \in span.startRow..(span.startRow + span.rowSpan - 1),
      c \in span.startColumn..(span.startColumn + span.columnSpan - 1) }

\* The cells of the grid.
GridCells(config) ==
  { [row |-> r, column |-> c] : r \in 0..(config.rows - 1), c \in 0..(config.columns - 1) }

\* The cells some assignment covers.
CoveredCells(state) ==
  UNION { SpanCells(state.assignments[i].cellSpan) : i \in DOMAIN state.assignments }

\* C1: in every GridState reached from initializeGridState through assignToGrid
\* and removeFromGrid, every assigned span lies within the grid and no two
\* assignments of different windows share a cell.
C1_ValidatedGridHasNoOverlap ==
  LET a == gridState.assignments
  IN /\ \A i \in DOMAIN a :
          /\ a[i].cellSpan.rowSpan >= 1
          /\ a[i].cellSpan.columnSpan >= 1
          /\ SpanCells(a[i].cellSpan) \subseteq GridCells(gridState.config)
     /\ \A i, j \in DOMAIN a :
          a[i].windowId # a[j].windowId =>
            SpanCells(a[i].cellSpan) \cap SpanCells(a[j].cellSpan) = {}

\* C1 witness: three windows are placed and the last assignToGrid was refused.
C1_Witness ==
  /\ Len(gridState.assignments) = 3
  /\ call.op = "assignToGrid"
  /\ ~call.success

\* C2: validateCellSpan(S, state, W) succeeds exactly when S is within the grid
\* and overlaps no assignment of a window other than W, for every window id W,
\* the empty string included.
C2_ValidateIgnoresOnlyOwnWindow ==
  (call.op = "validateCellSpan" /\ call.excludeWindowId.given) =>
    LET a == gridState.assignments
        W == call.excludeWindowId.id
        S == call.cellSpan
    IN call.result.valid =
         ( /\ isWithinGrid(S, gridState.config)
           /\ \A i \in DOMAIN a :
                a[i].windowId # W => ~cellSpansOverlap(S, a[i].cellSpan) )

\* C2, for the window ids on which the code does what the claim says: the
\* equivalence holds whenever W is not the empty string, and a failed overlap
\* check names an assignment of another window that overlaps S.
C2_ValidateIgnoresOwnNonEmptyWindow ==
  (call.op = "validateCellSpan" /\ call.excludeWindowId.given
     /\ call.excludeWindowId.id # "") =>
    LET a == gridState.assignments
        W == call.excludeWindowId.id
        S == call.cellSpan
        r == call.result
    IN /\ r.valid =
            ( /\ isWithinGrid(S, gridState.config)
              /\ \A i \in DOMAIN a :
                   a[i].windowId # W => ~cellSpansOverlap(S, a[i].cellSpan) )
       /\ (~r.valid /\ r.error = "overlaps with window") =>
            /\ r.windowId # W
            /\ \E i \in DOMAIN a :
                 /\ a[i] = [windowId |-> r.windowId, cellSpan |-> r.cellSpan]
                 /\ SpanCells(S) \cap SpanCells(r.cellSpan) # {}

\* C3: findAvailableSpan is a first-fit search in row-major order: a span it
\* returns has the requested size, passes validateCellSpan, and no earlier
\* origin of the grid passes; it returns null exactly when no origin of the
\* grid passes.  (Requested sizes are span sizes, 1 or more.)
C3_FindAvailableSpanIsFirstFit ==
  call.op = "findAvailableSpan" =>
    LET r == call.result
        Passes(row, col) ==
          validateCellSpan([startRow |-> row, startColumn |-> col,
                            rowSpan |-> call.rowSpan,
                            columnSpan |-> call.columnSpan],
                           gridState, NoExclude).valid
        Origins == (0..(gridState.config.rows - 1)) \X (0..(gridState.config.columns - 1))
    IN IF r = Null THEN \A o \in Origins : ~Passes(o[1], o[2])
       ELSE /\ r.rowSpan = call.rowSpan
            /\ r.columnSpan = call.columnSpan
            /\ <<r.startRow, r.startColumn>> \in Origins
            /\ Passes(r.startRow, r.startColumn)
            /\ \A o \in Origins :
                 (o[1] < r.startRow \/ (o[1] = r.startRow /\ o[2] < r.startColumn))
                   => ~Passes(o[1], o[2])

\* C3 witness: a search that had to pass over an occupied origin and an origin
\* of the row before.
C3_Witness ==
  /\ call.op = "findAvailableSpan"
  /\ call.result # Null
  /\ call.result.startRow > 0
  /\ call.result.startColumn > 0

OthersOf(l, w) == SelectSeq(l, LAMBDA a : a.windowId # w)

\* The positions of a list that hold an assignment of window w.
PlacesOf(l, w) == { i \in DOMAIN l : l[i].windowId = w }

\* C5: assignWindowToGrid(W, S, state), for a state with at most one assignment
\* per id, returns a list with exactly one assignment for W, with span S, and
\* with the assignments of the other windows unchanged and in the same order;
\* the same call made again returns the same list.
C5_AssignIsIdempotentPerWindow ==
  /\ call.op = "assignWindowToGrid" =>
       LET new == gridState.assignments
       IN /\ Cardinality(PlacesOf(new, call.windowId)) = 1
          /\ \A i \in PlacesOf(new, call.windowId) : new[i].cellSpan = call.cellSpan
          /\ OthersOf(new, call.windowId) = OthersOf(call.before, call.windowId)
  /\ call.op = "assignWindowToGridAgain" => gridState.assignments = call.before

\* C5 witness: the second of two equal calls, for a window that was first in
\* a list of three.
C5_Witness ==
  /\ call.op = "assignWindowToGridAgain"
  /\ Len(gridState.assignments) = 3
  /\ gridState.assignments[3].windowId = call.windowId

\* C6: swapWindowPositions(id1, id2, state) with both ids assigned returns a
\* state in which id1 holds id2's former span and id2 holds id1's, with the
\* same number of assignments and every other assignment unchanged; with an id
\* unassigned it throws and returns no state.
C6_SwapExchangesSpans ==
  call.op = "swapWindowPositions" =>
    LET old == call.before
        new == gridState.assignments
        SpanIn(l, w) == l[CHOOSE i \in PlacesOf(l, w) : TRUE].cellSpan
    IN IF PlacesOf(old, call.windowId1) # {} /\ PlacesOf(old, call.windowId2) # {}
       THEN /\ ~call.threw
            /\ Len(new) = Len(old)
            /\ \A i \in DOMAIN old :
                 /\ new[i].windowId = old[i].windowId
                 /\ old[i].windowId = call.windowId1 =>
                      new[i].cellSpan = SpanIn(old, call.windowId2)
                 /\ old[i].windowId = call.windowId2 =>
                      new[i].cellSpan = SpanIn(old, call.windowId1)
                 /\ old[i].windowId \notin {call.windowId1, call.windowId2} =>
                      new[i] = old[i]
       ELSE call.threw /\ new = old

\* C6 witness: two of three windows, placed on different spans, were swapped.
C6_Witness ==
  /\ call.op = "swapWindowPositions"
  /\ ~call.threw
  /\ Len(gridState.assignments) = 3
  /\ call.windowId1 # call.windowId2
  /\ gridState.assignments # call.before

\* C7: for all integers row >= 0 and column >= 0, the text cellToExcelNotation
\* writes for (row, column) is parsed back by excelNotationToCell to exactly
\* {row, column}.
C7_NotationRoundTrip ==
  call.op = "excelNotationToCell" =>
    call.result = [row |-> call.row, column |-> call.column]

\* C7 witness: a cell with a three-letter column and a two-digit row was
\* formatted and parsed back.
C7_Witness ==
  /\ call.op = "excelNotationToCell"
  /\ call.column >= 702
  /\ call.row >= 9
  /\ Len(call.notation) = 5
  /\ call.result = [row |-> call.row, column |-> call.column]

Abs(n) == IF n < 0 THEN -n ELSE n

\* C8: for every pair of valid spreadsheet cells a and b, parseCellSpec("a:b")
\* and parseCellSpec("b:a") both succeed with the same span: its start is the
\* (min row, min column) of the two corners, its rowSpan and columnSpan the
\* absolute row and column differences plus 1.
C8_RangeIsNormalizedToTopLeft ==
  call.op = "parseCellSpec reversed" =>
    LET a == call.first
        b == call.second
    IN /\ call.forward.success
       /\ call.result.success
       /\ call.forward.cellSpan = call.result.cellSpan
       /\ call.result.cellSpan =
            [startRow    |-> Min(a.row, b.row),
             startColumn |-> Min(a.column, b.column),
             rowSpan     |-> Abs(a.row - b.row) + 1,
             columnSpan  |-> Abs(a.column - b.column) + 1]

\* C8 witness: a range typed from its bottom-left to its top-right corner, and
\* then the other way round, was parsed both times.
C8_Witness ==
  /\ call.op = "parseCellSpec reversed"
  /\ call.first.row > call.second.row
  /\ call.first.column < call.second.column
  /\ call.forward.success
  /\ call.result.success
  /\ call.result.cellSpan.startRow = call.second.row
  /\ call.result.cellSpan.startColumn = call.first.column

\* The three messages parseCellSpec fails with.
ParseErrors ==
  { "Span dimensions must be at least 1", "Invalid cell notation",
    "Invalid cell specification" }

\* A tagged result: success with a span, or failure with an error string.
IsParseResult(r) ==
  \/ /\ DOMAIN r = {"success", "cellSpan"}
     /\ r.success = TRUE
     /\ DOMAIN r.cellSpan = {"startRow", "startColumn", "rowSpan", "columnSpan"}
     /\ \A f \in DOMAIN r.cellSpan : r.cellSpan[f] \in Int
  \/ /\ DOMAIN r = {"success", "error"}
     /\ r.success = FALSE
     /\ r.error \in ParseErrors

\* [A-Za-z], the letters of the documented spreadsheet form.
Letters == (65..90) \cup (97..122)

\* Where a cell [A-Za-z]+[0-9]+ starting at position i of t ends (the position
\* after it), 0 when no cell starts there.
CellEnd(t, i) ==
  LET c == SkipWhile(t, i, Letters)
      d == SkipWhile(t, c, Digits)
  IN IF c > i /\ d > c THEN d ELSE 0

\* The digits of the cell starting at position i of t are all zeros.
CellRowIsZero(t, i) ==
  LET c == SkipWhile(t, i, Letters)
  IN \A k \in c..(CellEnd(t, i) - 1) : t[k] = 48

\* The documented spreadsheet form, <cell> or <cell>:<cell>, surrounding
\* white space set aside.
InSpreadsheetForm(s) ==
  LET t == trim(s)
      e == CellEnd(t, 1)
  IN /\ e # 0
     /\ \/ e = Len(t) + 1
        \/ CharAt(t, e, 58) /\ CellEnd(t, e + 1) = Len(t) + 1

\* The documented coordinate form, row,col or row,col:RxC with white space
\* tolerated around the separators, surrounding white space set aside.
InCoordinateForm(s) == CoordMatch(trim(s)) # Null

\* A coordinate span whose R or C is written with zeros only.
IsZeroDimensionSpan(s) ==
  LET m == CoordMatch(trim(s))
      AllZeros(str) == \A k \in DOMAIN str : str[k] = 48
  IN /\ m # Null
     /\ m.rowSpanStr # << >>
     /\ AllZeros(m.rowSpanStr) \/ AllZeros(m.colSpanStr)

\* A spreadsheet cell, alone or as a corner of a range, whose row is 0.
IsRowZeroCell(s) ==
  LET t == trim(s)
      e == CellEnd(t, 1)
  IN /\ InSpreadsheetForm(s)
     /\ CellRowIsZero(t, 1) \/ (e # Len(t) + 1 /\ CellRowIsZero(t, e + 1))

\* The inputs the documentation lists as malformed: "0,0:0x1", "", "A", "1".
MalformedSpecs ==
  { Str(<<"0", ",", "0", ":", "0", "x", "1">>), << >>, Str(<<"A">>),
    Str(<<"1">>) }

\* What C9 asks of one call: a tagged result, and failure for the inputs it
\* names.
RejectsMalformed(spec, result) ==
  /\ IsParseResult(result)
  /\ (~InCoordinateForm(spec) /\ ~InSpreadsheetForm(spec)) => ~result.success
  /\ IsZeroDimensionSpan(spec) => ~result.success
  /\ IsRowZeroCell(spec) => ~result.success
  /\ spec \in MalformedSpecs => ~result.success

\* C9: parseCellSpec returns, for every input string, either success with a
\* span or failure with an error string, and it fails for an input matching
\* neither grammar, a coordinate span with a zero row or column dimension, a
\* spreadsheet cell with row 0, and the inputs "0,0:0x1", "", "A" and "1".
C9_ParseRejectsMalformed ==
  call.op = "parseCellSpec" => RejectsMalformed(call.spec, call.result)

\* C9, for inputs written in ASCII only: there the statement holds.
C9_ParseRejectsMalformedAscii ==
  (call.op = "parseCellSpec" /\ \A k \in DOMAIN call.spec : call.spec[k] < 128)
    => RejectsMalformed(call.spec, call.result)

\* C10: for every config with rows >= 1 and columns >= 1 and integer gaps,
\* margins and work-area sizes, calculateRemainingSpace returns horizontal in
\* [0, columns - 1] and vertical in [0, rows - 1], and on each axis
\* cellSize * count + totalGap <= available, cellSize being what
\* calculateSingleCellSize returns.
C10_RemainingSpaceIsLessThanCount ==
  call.op = "calculateRemainingSpace" =>
    LET config   == gridState.config
        monitor  == call.monitor
        cellSize == calculateSingleCellSize(config, monitor)
        availableWidth  ==
          monitor.workAreaWidth - config.marginLeft - config.marginRight
        availableHeight ==
          monitor.workAreaHeight - config.marginTop - config.marginBottom
        totalHGap == (config.columns - 1) * config.cellGapHorizontal
        totalVGap == (config.rows - 1) * config.cellGapVertical
    IN /\ call.result.horizontal \in 0..(config.columns - 1)
       /\ call.result.vertical \in 0..(config.rows - 1)
       /\ cellSize.width * config.columns + totalHGap <= availableWidth
       /\ cellSize.height * config.rows + totalVGap <= availableHeight

\* C10 witness: a layout of several rows and columns on a work area smaller
\* than its margins and gaps, leaving over the most the columns allow and
\* something on the rows.
C10_Witness ==
  /\ call.op = "calculateRemainingSpace"
  /\ gridState.config.columns > 1
  /\ gridState.config.rows > 1
  /\ call.monitor.workAreaWidth - gridState.config.marginLeft
       - gridState.config.marginRight
       - (gridState.config.columns - 1) * gridState.config.cellGapHorizontal < 0
  /\ call.result.horizontal = gridState.config.columns - 1
  /\ call.result.vertical > 0

\* Gaps and margins of a configuration that are all zero or more.
NonNegativeGaps(config) ==
  config.cellGapHorizontal >= 0 /\ config.cellGapVertical >= 0

NonNegativeMargins(config) ==
  /\ config.marginTop >= 0 /\ config.marginBottom >= 0
  /\ config.marginLeft >= 0 /\ config.marginRight >= 0

\* C11: for a config with non-negative gaps and margins whose cell size is
\* non-negative, and a span within the grid, the rectangle calculateCellRect
\* returns lies inside the work area inset by the margins.
C11_RectInsideInsetWorkArea ==
  (/\ call.op = "calculateCellRect"
   /\ NonNegativeGaps(gridState.config)
   /\ NonNegativeMargins(gridState.config)
   /\ calculateSingleCellSize(gridState.config, call.monitor).width >= 0
   /\ calculateSingleCellSize(gridState.config, call.monitor).height >= 0
   /\ isWithinGrid(call.cellSpan, gridState.config)) =>
    LET config  == gridState.config
        monitor == call.monitor
        rect    == call.result
    IN /\ rect.x >= monitor.workAreaX + config.marginLeft
       /\ rect.x + rect.width
            <= monitor.workAreaX + monitor.workAreaWidth - config.marginRight
       /\ rect.y >= monitor.workAreaY + config.marginTop
       /\ rect.y + rect.height
            <= monitor.workAreaY + monitor.workAreaHeight - config.marginBottom

\* C11 witness: the rectangle of a span of several columns that ends in the
\* last column of a grid with gaps and margins, on the monitor whose work
\* area does not start at 0.
C11_Witness ==
  /\ call.op = "calculateCellRect"
  /\ gridState.config.cellGapHorizontal > 0
  /\ gridState.config.marginLeft > 0
  /\ gridState.config.marginRight > 0
  /\ gridState.config.marginTop > 0
  /\ call.monitor.workAreaX > 0
  /\ calculateSingleCellSize(gridState.config, call.monitor).width > 0
  /\ calculateSingleCellSize(gridState.config, call.monitor).height > 0
  /\ call.cellSpan.columnSpan > 1
  /\ call.cellSpan.startColumn + call.cellSpan.columnSpan = gridState.config.columns
  /\ isWithinGrid(call.cellSpan, gridState.config)

\* The least and the greatest of a non-empty set of integers.
Least(S) == CHOOSE n \in S : \A m \in S : n <= m

Greatest(S) == CHOOSE n \in S : \A m \in S : n >= m

\* C12: for a span with rowSpan, columnSpan >= 1, calculateCellRect(span) is
\* the bounding box of the unit rectangles of the cells of getCellsInSpan(span):
\* its origin is the origin of the top-left cell, its far edges are the far
\* edges of the bottom-right cell, and its size holds (span - 1) gaps per axis.
\* (The box as least and greatest edge is compared where the cells have a
\* size and a pitch of zero or more, so that they are rectangles laid out
\* left to right and top to bottom.)
C12_SpanRectIsBoundingBoxOfCells ==
  (/\ call.op = "calculateCellRect"
   /\ call.cellSpan.rowSpan >= 1
   /\ call.cellSpan.columnSpan >= 1) =>
    LET config  == gridState.config
        monitor == call.monitor
        rect    == call.result
        cells   == getCellsInSpan(call.cellSpan)
        size    == calculateSingleCellSize(config, monitor)
        Unit(i) == calculateCellRect(singleCell(cells[i].row, cells[i].column),
                                     config, monitor)
        first   == Unit(1)
        last    == Unit(Len(cells))
    IN /\ Len(cells) = call.cellSpan.rowSpan * call.cellSpan.columnSpan
       /\ rect.x = first.x
       /\ rect.y = first.y
       /\ rect.x + rect.width = last.x + last.width
       /\ rect.y + rect.height = last.y + last.height
       /\ rect.width = call.cellSpan.columnSpan * size.width
                         + (call.cellSpan.columnSpan - 1) * config.cellGapHorizontal
       /\ rect.height = call.cellSpan.rowSpan * size.height
                         + (call.cellSpan.rowSpan - 1) * config.cellGapVertical
       /\ (/\ size.width >= 0 /\ size.width + config.cellGapHorizontal >= 0
           /\ size.height >= 0 /\ size.height + config.cellGapVertical >= 0) =>
            /\ rect.x = Least({ Unit(i).x : i \in DOMAIN cells })
            /\ rect.y = Least({ Unit(i).y : i \in DOMAIN cells })
            /\ rect.x + rect.width
                 = Greatest({ Unit(i).x + Unit(i).width : i \in DOMAIN cells })
            /\ rect.y + rect.height
                 = Greatest({ Unit(i).y + Unit(i).height : i \in DOMAIN cells })

\* C12 witness: the rectangle of a span of two rows and two columns or more,
\* in a grid with gaps whose cells have a size.
C12_Witness ==
  /\ call.op = "calculateCellRect"
  /\ call.cellSpan.rowSpan >= 2
  /\ call.cellSpan.columnSpan >= 2
  /\ call.cellSpan.startRow >= 1
  /\ gridState.config.cellGapHorizontal > 0
  /\ gridState.config.cellGapVertical > 0
  /\ calculateSingleCellSize(gridState.config, call.monitor).width > 0
  /\ calculateSingleCellSize(gridState.config, call.monitor).height > 0

\* What C13 asks of one call getCellAtPosition(x, y, config, monitor): the
\* result is a cell exactly when the point is inside that cell's unit
\* rectangle, at most one cell holds the point, and a point in a gap (inside
\* no unit rectangle), in a margin or outside the work area gives null.
OwnsPoint(x, y, config, monitor, result) ==
  LET Rect(row, col) == calculateCellRect(singleCell(row, col), config, monitor)
      Inside(row, col) ==
        /\ x >= Rect(row, col).x /\ x < Rect(row, col).x + Rect(row, col).width
        /\ y >= Rect(row, col).y /\ y < Rect(row, col).y + Rect(row, col).height
      Cells == (0..(config.rows - 1)) \X (0..(config.columns - 1))
      OutsideWorkArea ==
        \/ x < monitor.workAreaX
        \/ x >= monitor.workAreaX + monitor.workAreaWidth
        \/ y < monitor.workAreaY
        \/ y >= monitor.workAreaY + monitor.workAreaHeight
      InMargin ==
        /\ ~OutsideWorkArea
        /\ \/ x < monitor.workAreaX + config.marginLeft
           \/ x >= monitor.workAreaX + monitor.workAreaWidth - config.marginRight
           \/ y < monitor.workAreaY + config.marginTop
           \/ y >= monitor.workAreaY + monitor.workAreaHeight - config.marginBottom
  IN /\ \A c \in Cells :
          (result = [row |-> c[1], column |-> c[2]]) <=> Inside(c[1], c[2])
     /\ Cardinality({ c \in Cells : Inside(c[1], c[2]) }) <= 1
     /\ (\A c \in Cells : ~Inside(c[1], c[2])) => result = Null
     /\ (OutsideWorkArea \/ InMargin) => result = Null

\* C13 as stated: for non-negative gaps, getCellAtPosition returns a cell
\* exactly when the point lies inside that cell's unit rectangle, at most one
\* cell contains a point, and it returns null for every point in a gap, in a
\* margin or outside the work area.
C13_CellAtPositionOwnsPoint ==
  (call.op = "getCellAtPosition" /\ NonNegativeGaps(gridState.config)) =>
    OwnsPoint(call.x, call.y, gridState.config, call.monitor, call.result)

\* C13 amended: the same for non-negative gaps and non-negative margins.
C13_CellAtPositionOwnsPointWithinMargins ==
  (/\ call.op = "getCellAtPosition"
   /\ NonNegativeGaps(gridState.config)
   /\ NonNegativeMargins(gridState.config)) =>
    OwnsPoint(call.x, call.y, gridState.config, call.monitor, call.result)

\* C13 witness: a position found in a cell that is neither in the first row
\* nor in the first column of a grid with gaps and margins.
C13_Witness ==
  /\ call.op = "getCellAtPosition"
  /\ gridState.config.cellGapHorizontal > 0
  /\ gridState.config.cellGapVertical > 0
  /\ gridState.config.marginLeft > 0
  /\ gridState.config.marginTop > 0
  /\ call.result # Null
  /\ call.result.row >= 1
  /\ call.result.column >= 1

\* C14: getAvailableCells(state) returns, in row-major order and without
\* duplicates, exactly the cells of the grid that are in getCellsInSpan of no
\* assignment; with the covered cells of the grid they partition the grid, so
\* the two counts sum to rows * columns.
C14_AvailableCellsAreTheUncovered ==
  call.op = "getAvailableCells" =>
    LET r       == call.result
        config  == gridState.config
        a       == gridState.assignments
        InSomeSpan(cell) ==
          \E i \in DOMAIN a :
            \E k \in DOMAIN getCellsInSpan(a[i].cellSpan) :
              getCellsInSpan(a[i].cellSpan)[k] = cell
        covered == GridCells(config) \cap CoveredCells(gridState)
    IN /\ \A i, j \in DOMAIN r :
            i < j => \/ r[i].row < r[j].row
                     \/ r[i].row = r[j].row /\ r[i].column < r[j].column
       /\ { r[i] : i \in DOMAIN r }
            = { cell \in GridCells(config) : ~InSomeSpan(cell) }
       /\ { r[i] : i \in DOMAIN r } \cap covered = {}
       /\ { r[i] : i \in DOMAIN r } \cup covered = GridCells(config)
       /\ Len(r) + Cardinality(covered) = config.rows * config.columns

\* C14 witness: a grid with two assignments, one of several cells, in which
\* some cells are covered and some, after the covered ones, are left.
C14_Witness ==
  /\ call.op = "getAvailableCells"
  /\ Len(gridState.assignments) = 2
  /\ \E i \in DOMAIN gridState.assignments :
       /\ isWithinGrid(gridState.assignments[i].cellSpan, gridState.config)
       /\ gridState.assignments[i].cellSpan.rowSpan
            * gridState.assignments[i].cellSpan.columnSpan > 1
  /\ Len(call.result) >= 1
  /\ call.result[1] # [row |-> 0, column |-> 0]

\* C15: removeWindowFromGrid(W, state) for a window without an assignment
\* returns (without throwing) a state with the same assignment list, entry by
\* entry; for an assigned W it removes W's assignment only and keeps the
\* others unchanged and in the same order.
C15_RemoveDropsOnlyThatWindow ==
  call.op = "removeWindowFromGrid" =>
    LET old == call.before
        new == gridState.assignments
        \* the position in new of the entry at position i of old
        Moved(i) == i - Cardinality({ j \in PlacesOf(old, call.windowId) : j < i })
    IN /\ PlacesOf(old, call.windowId) = {} => new = old
       /\ PlacesOf(new, call.windowId) = {}
       /\ Len(new) = Len(old) - Cardinality(PlacesOf(old, call.windowId))
       /\ \A i \in DOMAIN old :
            old[i].windowId # call.windowId => new[Moved(i)] = old[i]

\* C15 witness: the window in the middle of three assignments was removed.
C15_Witness ==
  /\ call.op = "removeWindowFromGrid"
  /\ Len(call.before) = 3
  /\ call.before[2].windowId = call.windowId
  /\ gridState.assignments = <<call.before[1], call.before[3]>>

\* C16: for spans a and b with rowSpan, columnSpan >= 1, cellSpansOverlap(a, b)
\* is true exactly when getCellsInSpan(a) and getCellsInSpan(b) have a cell in
\* common, and cellSpansOverlap(a, b) = cellSpansOverlap(b, a).
C16_OverlapIsSharingACell ==
  call.op = "cellSpansOverlap" =>
    LET CellsOf(span) ==
          { getCellsInSpan(span)[k] : k \in DOMAIN getCellsInSpan(span) }
    IN /\ call.result = (CellsOf(call.a) \cap CellsOf(call.b) # {})
       /\ call.result = cellSpansOverlap(call.b, call.a)

\* C16 witness: two spans of several cells, neither inside the other, that
\* share exactly one cell.
C16_Witness ==
  /\ call.op = "cellSpansOverlap"
  /\ call.result
  /\ call.a.rowSpan > 1 /\ call.b.columnSpan > 1
  /\ Cardinality(SpanCells(call.a) \cap SpanCells(call.b)) = 1
  /\ ~(SpanCells(call.a) \subseteq SpanCells(call.b))
  /\ ~(SpanCells(call.b) \subseteq SpanCells(call.a))

RECURSIVE Power(_, _)
Power(base, exponent) ==
  IF exponent = 0 THEN 1 ELSE base * Power(base, exponent - 1)

\* The number a numeral stands for: the digit at position k, counted from the
\* right from 0, weighs base^k; ValueOf gives the value of a character.
RECURSIVE NumeralValue(_, _, _)
NumeralValue(numeral, base, zero) ==
  IF numeral = << >> THEN 0
  ELSE (Head(numeral) - zero) * Power(base, Len(numeral) - 1)
         + NumeralValue(Tail(numeral), base, zero)

\* C17: cellToExcelNotation(row, column) is the bijective base-26 numeral of
\* column + 1 over A..Z (every letter worth 1..26; 0 -> A, 25 -> Z, 26 -> AA,
\* 51 -> AZ, 52 -> BA) followed by row + 1 in decimal, so that distinct
\* (row, column) pairs give distinct texts.
C17_NotationIsBijectiveBase26 ==
  call.op = "cellToExcelNotation" =>
    LET t       == call.result
        n       == SkipWhile(t, 1, UpperLetters) - 1
        letters == SubSeq(t, 1, n)
        digits  == SubSeq(t, n + 1, Len(t))
        Named   == (0 :> <<"A">>) @@ (25 :> <<"Z">>) @@ (26 :> <<"A", "A">>)
                     @@ (51 :> <<"A", "Z">>) @@ (52 :> <<"B", "A">>)
    IN /\ n >= 1
       /\ \A k \in DOMAIN letters : letters[k] - 64 \in 1..26
       /\ NumeralValue(letters, 26, 64) = call.column + 1
       /\ digits # << >>
       /\ \A k \in DOMAIN digits : digits[k] \in Digits
       /\ digits[1] # 48
       /\ NumeralValue(digits, 10, 48) = call.row + 1
       /\ call.column \in DOMAIN Named => letters = Str(Named[call.column])
       /\ \A row \in {0, 1, 9, 10, 99, call.row + 1},
             column \in {0, 1, 25, 26, 27, 51, 52, 701, 702, call.column + 1,
                         call.column + 26} :
            cellToExcelNotation(row, column) = t
              => (row = call.row /\ column = call.column)

\* C17 witness: a column past ZZ, written with three letters, in a row written
\* with two digits.
C17_Witness ==
  /\ call.op = "cellToExcelNotation"
  /\ call.column > 702
  /\ call.row = 10
  /\ SubSeq(call.result, 1, 3) = Str(<<"A", "A", "B">>)
  /\ Len(call.result) = 5

\* C18: assignWindowToGrid validates nothing: for every span, out of the grid
\* or overlapping another window's span included, the state it returns holds
\* the assignment of that span to the window (and so two calls from
\* initializeGridState reach a state with two overlapping assignments).
C18_AssignAcceptsEverySpan ==
  call.op = "assignWindowToGrid" =>
    LET a == gridState.assignments
    IN /\ a # << >>
       /\ a[Len(a)] = [windowId |-> call.windowId, cellSpan |-> call.cellSpan]
       /\ PlacesOf(a, call.windowId) = {Len(a)}

\* C18 witness: two windows hold spans that share a cell, one of them
\* reaching out of the grid, after the second was assigned.
C18_Witness ==
  /\ call.op = "assignWindowToGrid"
  /\ Len(gridState.assignments) = 2
  /\ gridState.assignments[1].windowId # gridState.assignments[2].windowId
  /\ isWithinGrid(gridState.assignments[1].cellSpan, gridState.config)
  /\ ~isWithinGrid(gridState.assignments[2].cellSpan, gridState.config)
  /\ SpanCells(gridState.assignments[1].cellSpan)
       \cap SpanCells(gridState.assignments[2].cellSpan) # {}
  /\ cellSpansOverlap(gridState.assignments[1].cellSpan,
                      gridState.assignments[2].cellSpan)

\* A span of one row and one column or more.
HasACell(span) == span.rowSpan >= 1 /\ span.columnSpan >= 1

\* C19: every CellSpan handed back has rowSpan >= 1 and columnSpan >= 1: the
\* results of singleCell and cellSpan for all integer arguments, every
\* successful parseCellSpec result, and every non-null result of
\* findAvailableSpan for all integer requested sizes, 0 and less included.
C19_EverySpanHasACell ==
  /\ call.op \in {"singleCell", "cellSpan"} => HasACell(call.result)
  /\ (call.op = "parseCellSpec" /\ call.result.success)
       => HasACell(call.result.cellSpan)
  /\ (call.op = "findAvailableSpan" /\ call.result # Null)
       => HasACell(call.result)

\* C19 without the requests for less than one row or column: the constructors,
\* parseCellSpec, and findAvailableSpan asked for a size of 1 or more hand back
\* spans of at least one cell.
C19_EverySpanHasACellForSizesFromOne ==
  /\ call.op \in {"singleCell", "cellSpan"} => HasACell(call.result)
  /\ (call.op = "parseCellSpec" /\ call.result.success)
       => HasACell(call.result.cellSpan)
  /\ (/\ call.op = "findAvailableSpan" /\ call.result # Null
      /\ call.rowSpan >= 1 /\ call.columnSpan >= 1)
       => HasACell(call.result)

\* What C20 asks of one call validateCellSpan(S, state, W), excluded being the
\* positions of the assignment list that are W's: a span outside the grid
\* gets the out-of-bounds failure, whatever it overlaps; a span in the grid
\* that overlaps gets the overlap failure with the window id and span of the
\* first overlapping assignment, in list order, that is not excluded.
FirstFailingReason(S, state, excluded, result) ==
  LET a    == state.assignments
      Hits == { i \in DOMAIN a \ excluded : cellSpansOverlap(S, a[i].cellSpan) }
      hit  == a[Least(Hits)]
  IN /\ ~isWithinGrid(S, state.config)
          => result = [valid |-> FALSE, error |-> "outside grid bounds"]
     /\ (isWithinGrid(S, state.config) /\ Hits # {})
          => result = [valid |-> FALSE, error |-> "overlaps with window",
                       windowId |-> hit.windowId, cellSpan |-> hit.cellSpan]

\* C20: validateCellSpan applies its two checks in order and returns the
\* first failing reason: out of bounds for a span outside the grid whether or
\* not it overlaps, else the overlap failure naming the window id and span of
\* the first overlapping non-excluded assignment in assignment-list order.
C20_ValidateReportsFirstFailure ==
  call.op = "validateCellSpan" =>
    LET excluded ==
          IF call.excludeWindowId.given
          THEN PlacesOf(gridState.assignments, call.excludeWindowId.id)
          ELSE {}
    IN FirstFailingReason(call.cellSpan, gridState, excluded, call.result)

\* C20 where the excluded window, if one is given, is not the empty string.
C20_ValidateReportsFirstFailureForNonEmptyId ==
  (/\ call.op = "validateCellSpan"
   /\ call.excludeWindowId.given => call.excludeWindowId.id # "") =>
    LET excluded ==
          IF call.excludeWindowId.given
          THEN PlacesOf(gridState.assignments, call.excludeWindowId.id)
          ELSE {}
    IN FirstFailingReason(call.cellSpan, gridState, excluded, call.result)

---------------------------------------------------------------------------
(* Asynchronous operations and the two services *)

AsyncOps ==
  {"calculateWindowRect", "positionWindow", "getCellDimensions",
   "getGridLayoutInfo"}

\* The operation in progress is about a window: the one it was called for.
AboutWindow == call.op \in {"calculateWindowRect", "positionWindow"}

\* The lookup of the operation in progress rejected.
LookupRejected ==
  /\ call.pc = "done"
  /\ call.outcome = Threw("PowerShell exited with an error")

\* positionWindow reached its call of setWindowPosition.
PlacementRequested ==
  /\ call.op = "positionWindow"
  /\ call.pc = "done"
  /\ call.outcome \in { Returned(Undefined),
                        Threw("Failed to set window position") }

\* C21 (as stated): every finished call of calculateWindowRect,
\* positionWindow, getCellDimensions and getGridLayoutInfo has issued exactly
\* one getMonitor lookup, whatever its input (a window without an assignment
\* included); positionWindow has issued exactly one setWindowPosition call
\* when it placed the window; no call is ever issued a second time.
C21_EveryCallLooksUpOnce ==
  call.op \in AsyncOps =>
    /\ call.lookups <= 1
    /\ call.placements <= 1
    /\ call.pc = "done" => call.lookups = 1
    /\ PlacementRequested => call.placements = 1

\* C21 (amended): getCellDimensions and getGridLayoutInfo, and
\* calculateWindowRect and positionWindow for a window that has an
\* assignment, issue exactly one getMonitor lookup; for a window without an
\* assignment calculateWindowRect and positionWindow issue none.
\* positionWindow issues exactly one setWindowPosition call when it got a
\* rectangle and none otherwise; nothing is issued a second time.
C21_AssignedCallLooksUpOnce ==
  call.op \in AsyncOps =>
    LET unassigned ==
          /\ AboutWindow
          /\ getWindowCellSpan(call.args.windowId, gridState) = Null
        gotRect ==
          /\ call.op = "positionWindow"
          /\ ~unassigned
          /\ call.pc \in {"setWindowPosition", "done"}
          /\ ~LookupRejected
          /\ getMonitor(gridState.config.monitorIndex, call.monitors) # Null
    IN /\ call.lookups = (IF unassigned THEN 0 ELSE 1)
       /\ call.placements = (IF gotRect THEN 1 ELSE 0)
       /\ PlacementRequested => gotRect

\* positionWindow has finished placing an assigned window: one lookup and one
\* placement were issued.
C21_Witness ==
  /\ PlacementRequested
  /\ call.outcome = Returned(Undefined)
  /\ call.lookups = 1
  /\ call.placements = 1

\* The lookup of the operation in progress resolved with not-found.
MonitorNotFound ==
  /\ call.op \in AsyncOps
  /\ call.lookups = 1
  /\ call.pc = "done"
  /\ ~LookupRejected
  /\ getMonitor(gridState.config.monitorIndex, call.monitors) = Null

\* C22: when getMonitor resolves with not-found for config.monitorIndex,
\* calculateWindowRect returns not-found, positionWindow throws and has never
\* called setWindowPosition, getCellDimensions and getGridLayoutInfo throw a
\* monitor-not-found error; and no step of the four operations changes the
\* GridState they were given.
C22_FailedLookupReachesCaller ==
  /\ [](MonitorNotFound =>
          /\ call.placements = 0
          /\ call.op = "calculateWindowRect" => call.outcome = Returned(Null)
          /\ call.op = "positionWindow" => call.outcome.threw
          /\ call.op \in {"getCellDimensions", "getGridLayoutInfo"} =>
               call.outcome = Threw("Monitor not found"))
  /\ [][gridState' = gridState]_vars

\* positionWindow for an assigned window on a grid whose monitor is not
\* connected.
C22_Witness ==
  /\ MonitorNotFound
  /\ call.op = "positionWindow"
  /\ getWindowCellSpan(call.args.windowId, gridState) # Null
  /\ Len(call.monitors) = 2

---------------------------------------------------------------------------
(* The assignment list over a caller's history *)

\* C23: in every GridState reached from initializeGridState by
\* assignWindowToGrid, removeWindowFromGrid and successful
\* swapWindowPositions calls, no window id has two assignments, and
\* getWindowCellSpan(W) is the span W was last given by an assignment or a
\* swap, or not-found if W was removed since (or never placed).
C23_OneAssignmentPerWindow ==
  /\ \A i, j \in DOMAIN gridState.assignments :
       i # j => gridState.assignments[i].windowId # gridState.assignments[j].windowId
  /\ \A w \in Windows : getWindowCellSpan(w, gridState) = call.last[w]

\* A window that was already placed has just been given another span, next
\* to a second window.
C23_Witness ==
  /\ call.op = "assignWindowToGrid"
  /\ Len(call.before) = 2
  /\ Len(gridState.assignments) = 2
  /\ \E i \in DOMAIN call.before :
       /\ call.before[i].windowId = gridState.assignments[2].windowId
       /\ call.before[i].cellSpan # gridState.assignments[2].cellSpan

\* How many assignments of the list hold the span.
TimesAssigned(span, assignments) ==
  Cardinality({ i \in DOMAIN assignments : assignments[i].cellSpan = span })

\* All spans lie within the grid and no two assignments overlap.
LayoutHolds(config, assignments) ==
  /\ \A i \in DOMAIN assignments : isWithinGrid(assignments[i].cellSpan, config)
  /\ \A i, j \in DOMAIN assignments :
       i # j => ~cellSpansOverlap(assignments[i].cellSpan, assignments[j].cellSpan)

\* C24: a successful swapWindowPositions leaves the multiset of assigned
\* spans and the sequence of window ids unchanged, so a layout whose spans
\* are within the grid and do not overlap stays one; and the same swap made a
\* second time gives back the original assignment list.
C24_SwapPermutesSpans ==
  /\ call.op = "swapWindowPositions" =>
       /\ Len(gridState.assignments) = Len(call.before)
       /\ \A i \in DOMAIN call.before :
            /\ gridState.assignments[i].windowId = call.before[i].windowId
            /\ TimesAssigned(call.before[i].cellSpan, gridState.assignments)
                 = TimesAssigned(call.before[i].cellSpan, call.before)
       /\ \A i \in DOMAIN gridState.assignments :
            TimesAssigned(gridState.assignments[i].cellSpan, gridState.assignments)
              = TimesAssigned(gridState.assignments[i].cellSpan, call.before)
       /\ LayoutHolds(gridState.config, call.before) =>
            LayoutHolds(gridState.config, gridState.assignments)
  /\ call.op = "swapWindowPositions again" =>
       gridState.assignments = call.original

\* Two windows whose spans differ in size, in a layout without overlap, have
\* been swapped and swapped back.
C24_Witness ==
  /\ call.op = "swapWindowPositions again"
  /\ call.before # call.original
  /\ LayoutHolds(gridState.config, gridState.assignments)
  /\ \E i, j \in DOMAIN gridState.assignments :
       gridState.assignments[i].cellSpan.rowSpan
         # gridState.assignments[j].cellSpan.rowSpan

---------------------------------------------------------------------------
(* Validation and the available cells *)

\* Every cell of the span is one of the cells listed.
AllCellsAmong(span, cells) ==
  \A k \in DOMAIN getCellsInSpan(span) :
    \E i \in DOMAIN cells : cells[i] = getCellsInSpan(span)[k]

\* C25: for a span with rowSpan, columnSpan >= 1, validateCellSpan(span,
\* state) without an excluded window succeeds exactly when every cell of
\* getCellsInSpan(span) is in getAvailableCells(state); and every cell of a
\* span that findAvailableSpan returns is an available cell.
C25_ValidIsAllCellsAvailable ==
  /\ ( /\ call.op = "validateCellSpan, getAvailableCells"
       /\ call.cellSpan.rowSpan >= 1
       /\ call.cellSpan.columnSpan >= 1 ) =>
       (call.result.valid <=> AllCellsAmong(call.cellSpan, call.availableCells))
  /\ ( /\ call.op = "findAvailableSpan, getAvailableCells"
       /\ call.result # Null ) =>
       AllCellsAmong(call.result, call.availableCells)

\* A span of several cells is valid on a grid that holds an assignment: its
\* cells are among the cells left.
C25_Witness ==
  /\ call.op = "validateCellSpan, getAvailableCells"
  /\ call.result.valid
  /\ call.cellSpan.rowSpan * call.cellSpan.columnSpan > 1
  /\ Len(gridState.assignments) >= 1
  /\ Len(call.availableCells) < gridState.config.rows * gridState.config.columns
  /\ AllCellsAmong(call.cellSpan, call.availableCells)

---------------------------------------------------------------------------
(* Formatting and parsing *)

\* C26: for a span with startRow, startColumn >= 0 and rowSpan, columnSpan
\* >= 1, parseCellSpec of the text formatCellSpan returns and of the text
\* formatCellSpanCoords returns succeeds with a span equal to the one
\* formatted.
C26_FormatParseRoundTrip ==
  ( /\ call.op = "parseCellSpec"
    /\ call.cellSpan.startRow >= 0 /\ call.cellSpan.startColumn >= 0
    /\ call.cellSpan.rowSpan >= 1 /\ call.cellSpan.columnSpan >= 1 ) =>
    call.result = ParseSuccess(call.cellSpan)

\* A span of several rows and columns that ends in a two-letter column came
\* back from its spreadsheet notation.
C26_Witness ==
  /\ call.op = "parseCellSpec"
  /\ call.formattedBy = "formatCellSpan"
  /\ call.cellSpan.rowSpan > 1
  /\ call.cellSpan.columnSpan > 1
  /\ call.cellSpan.startColumn = 25
  /\ Len(call.spec) > 5
  /\ call.result = ParseSuccess(call.cellSpan)

---------------------------------------------------------------------------
(* spawnCanvasWithIPC: the promise *)

\* What each terminating event resolves the promise with.
OutcomeOf(event) ==
  CASE event = "selected" -> Selected
    [] event = "cancelled" -> Cancelled
    [] event = "error" -> Failure("canvas error")
    [] event = "client disconnected" -> Failure("canvas disconnected unexpectedly")
    [] event = "ipc error" -> Failure("ipc error")
    [] event = "connection timer fired" -> Failure("connection timeout")
    [] event = "selection timer fired" -> Failure("selection timeout")
    [] event \in {"createIPCServer rejected", "spawnCanvas rejected"} ->
         Failure("failed to spawn canvas")

\* The event ends the call when it meets a promise that is not resolved yet:
\* the connection timer does so only if no client has connected.
Terminates(event, c) ==
  \/ event \in {"selected", "cancelled", "error", "client disconnected",
                "ipc error", "selection timer fired",
                "createIPCServer rejected", "spawnCanvas rejected"}
  \/ event = "connection timer fired" /\ ~c.clientConnected

\* What of the closure an observer of the call can tell: the resolutions, the
\* timers, the server and what was sent to the canvas and the caller.
Observed(c) ==
  <<c.resolutions, c.selectionTimer, c.connectionTimer, c.timeoutId,
    c.connectionTimeoutId, c.server, c.broadcasts, c.readySignals>>

\* C27: resolve is called at most once, by the first terminating event and
\* with that event's outcome; once the promise is resolved no timer is
\* armed and the server is not open, and no later message, disconnect, error
\* or timer expiry changes anything; and the connection-timeout failure is
\* reported only by the connection timer firing before any client connected.
C27_ResolvedOnceByFirstEvent ==
  /\ [](/\ Len(call.c.resolutions) <= 1
        /\ call.c.resolved <=> Len(call.c.resolutions) = 1
        /\ call.c.resolved =>
             /\ call.c.selectionTimer # "armed"
             /\ call.c.connectionTimer # "armed"
             /\ call.c.timeoutId = "null"
             /\ call.c.connectionTimeoutId = "null"
             /\ call.c.server # "open")
  /\ [][/\ ~call.c.resolved =>
             (call'.c.resolved <=> Terminates(call'.event, call.c))
        /\ (~call.c.resolved /\ call'.c.resolved) =>
             call'.c.resolutions = <<OutcomeOf(call'.event)>>
        /\ call.c.resolved => Observed(call'.c) = Observed(call.c)
        /\ ( /\ call'.c.resolutions # call.c.resolutions
             /\ call'.c.resolutions[1] = Failure("connection timeout") ) =>
             /\ ~call.c.clientConnected
             /\ call'.event = "connection timer fired"
       ]_vars

\* The canvas connected and sent its selection; the client's disconnect came
\* after the promise was resolved.
C27_Witness ==
  /\ call.op = "spawnCanvasWithIPC"
  /\ call.event = "client disconnected"
  /\ call.c.clientConnected
  /\ call.c.resolutions = <<Selected>>
  /\ call.c.selectionTimer = "cleared"
  /\ call.c.connectionTimer = "cleared"
  /\ call.c.server = "closed"

\* C28: provided createIPCServer and spawnCanvas settle and armed timers
\* fire, every call is resolved in the end; a connection timer that fires
\* with no client connected, a selection timer that fires, and a rejection of
\* createIPCServer or of spawnCanvas resolve a promise that is still open
\* with a failure.
C28_EveryCallResolves ==
  /\ <>(call.c.resolved)
  /\ [][( /\ ~call.c.resolved
          /\ \/ call'.event \in {"selection timer fired",
                                 "createIPCServer rejected",
                                 "spawnCanvas rejected"}
             \/ /\ call'.event = "connection timer fired"
                /\ ~call.c.clientConnected ) =>
          /\ Len(call'.c.resolutions) = 1
          /\ ~call'.c.resolutions[1].success
       ]_vars

\* The canvas connected and stayed silent until the selection timer fired.
C28_Witness ==
  /\ call.op = "spawnCanvasWithIPC"
  /\ call.event = "selection timer fired"
  /\ call.c.clientConnected
  /\ call.c.pc = "returned"
  /\ call.c.resolutions = <<Failure("selection timeout")>>
  /\ call.c.broadcasts = 1

---------------------------------------------------------------------------
(* spawnCanvasInGrid and the grid it returns *)

\* The GridState the call in progress was given.
InputState == [gridState EXCEPT !.assignments = call.before]

\* The position the options ask for does not parse, or does not validate
\* against the input state.
PositionRejected ==
  LET parsed == parseCellSpec(call.options.gridPosition.value)
  IN \/ ~parsed.success
     \/ ~validateCellSpan(parsed.cellSpan, InputState, NoExclude).valid

AutoPlaces == ~(call.options.autoPlace.given /\ ~call.options.autoPlace.value)

\* The search the options ask for finds no span in the input state.
NothingAvailable ==
  findAvailableSpan(OrElse(call.options.rows, 1), OrElse(call.options.columns, 1),
                    InputState) = Null

\* The returned state holds the input assignments and one more, for the new
\* window, at a span that validateCellSpan accepts on the input state.
OneValidAssignmentAdded ==
  /\ Len(gridState.assignments) = Len(call.before) + 1
  /\ SubSeq(gridState.assignments, 1, Len(call.before)) = call.before
  /\ LET added == gridState.assignments[Len(gridState.assignments)]
     IN /\ added.windowId = call.windowId
        /\ validateCellSpan(added.cellSpan, InputState, NoExclude).valid

\* C29 (as stated): when the requested position fails to parse or validate,
\* or no span is available, no canvas is spawned and the input state is
\* returned; when the canvas fails the returned state has the input's
\* assignments; when it succeeds the returned state holds the input's
\* assignments plus exactly one for the new window id, at a span that passed
\* validateCellSpan against the input state.
C29_NoFailedCanvasOnGrid ==
  (call.op = "spawnCanvasInGrid" /\ call.pc = "done") =>
    /\ ( \/ call.options.gridPosition.given /\ PositionRejected
         \/ ~call.options.gridPosition.given /\ AutoPlaces /\ NothingAvailable ) =>
         /\ call.spawned = 0
         /\ gridState.assignments = call.before
    /\ ~call.result.success => gridState.assignments = call.before
    /\ call.result.success => OneValidAssignmentAdded

\* C29 (amended): provided the generated window id is not assigned in the
\* input state.  A position is requested by a non-empty gridPosition; when it
\* fails to parse or validate, or when none is requested, autoPlace is not
\* false and no span is available, no canvas is spawned and the input state
\* is returned.  When the canvas fails the returned state has the input's
\* assignments.  When it succeeds and a span was chosen (a position was
\* requested or autoPlace is not false) the returned state holds the input's
\* assignments plus exactly one for the new window id, at a span that passed
\* validateCellSpan against the input state; with no position requested and
\* autoPlace false the input's assignments are returned as they were.
C29_NoFailedCanvasOnGridForNewId ==
  ( /\ call.op = "spawnCanvasInGrid"
    /\ call.pc = "done"
    /\ \A i \in DOMAIN call.before : call.before[i].windowId # call.windowId ) =>
    LET requested == /\ call.options.gridPosition.given
                     /\ Len(call.options.gridPosition.value) > 0
    IN /\ ( \/ requested /\ PositionRejected
            \/ ~requested /\ AutoPlaces /\ NothingAvailable ) =>
            /\ call.spawned = 0
            /\ gridState.assignments = call.before
       /\ ~call.result.success => gridState.assignments = call.before
       /\ (call.result.success /\ (requested \/ AutoPlaces)) =>
            OneValidAssignmentAdded
       /\ (call.result.success /\ ~requested /\ ~AutoPlaces) =>
            /\ call.spawned = 1
            /\ gridState.assignments = call.before

\* A canvas that was given a free position next to an earlier window failed:
\* the earlier window is all the grid holds.
C29_Witness ==
  /\ call.op = "spawnCanvasInGrid"
  /\ call.pc = "done"
  /\ call.spawned = 1
  /\ call.cellSpan # Null
  /\ call.options.gridPosition.given
  /\ ~call.result.success
  /\ call.windowId = "calendar-1-abc"
  /\ Len(call.before) = 1
  /\ gridState.assignments = call.before

---------------------------------------------------------------------------
(* The monitor cache *)

\* C30: a getCachedMonitors call that starts after a clearMonitorCache call
\* has returned never returns monitors whose getAllMonitors fetch was started
\* before that clear, whatever was awaiting its fetch when the cache was
\* cleared.
C30_NoStaleMonitorsAfterClear ==
  (call.op = "monitor-info" /\ call.m.returned # Null) =>
    call.m.returned.monitors.fetchStartedAfter >= call.m.returned.callStartedAfter

=============================================================================
